---- MODULE Spec2Model ----
(***************************************************************************)
(* Objectify Params (vscode-objectify-params): the convert command.        *)
(*                                                                         *)
(* The model follows one attempt of convertCommandHandler                  *)
(* (src/src/commands.ts): the scan of the project by collectCalls          *)
(* (src/unnamed/part_006, the parse and text modules), the preview and     *)
(* review dialogs (src/src/dialogs.ts) and the final workspace edit.       *)
(*                                                                         *)
(* Texts are strings built with \o exactly as the template literals of the *)
(* source build them; a document's content is the stack of edits applied   *)
(* to the snapshot and not undone (the empty stack is the snapshot).       *)
(***************************************************************************)
EXTENDS Integers, Sequences, FiniteSets, TLC

\* ------------------------------------------------------------------ bounds

\* The number of call expressions in the scanned project (over all files).
MaxCalls == 2

\* The number of call expressions in the project when the target and the
\* settings range over every shape.
MaxCallsAnyTarget == 1

\* The number of times the user types into a document without saving it.
MaxUnsaved == 1

\* ------------------------------------------------------------------ texts

fnName == "createUser"

\* The files of the workspace: the target's file, one more source file and a
\* template file.  The project holds the source files in the order of the
\* include patterns '**/*.ts **/*.js': a.ts before a.js.
SourceFile == "a.ts"
OtherFile == "a.js"
TemplateFile == "v.vue"
Files == {SourceFile, OtherFile, TemplateFile}

\* The parameter names and the trimmed argument texts of the model's calls
\* and template matches.
ParamNameTexts == {"name", "age", "email"}
ArgTexts ==
  {"name", "age", "undefined", "void 0", "this", "1", "2", "3", "4", "25", "30",
   "...args", "getName(", "[1", "2]",
   "\"Alice\"", "\"Bob\"", "\"alice@example.com\"",
   "{ name: \"Al\" }", "{ name }"}

\* The texts of the properties buildCallReplacement can emit for them.
PropertyTexts ==
  ParamNameTexts \cup {n \o ":" \o a : n \in ParamNameTexts, a \in ArgTexts}

\* The texts without surrounding white space that trim() can meet: the
\* above, the names and types of a tuple type's elements, and each of them
\* after the "{ " or before the " }" of an object literal (a piece of an
\* already rewritten template call).
TrimmedTexts ==
  {open \o q \o close :
     open \in {"", "{ "}, close \in {"", " }"},
     q \in PropertyTexts \cup ArgTexts \cup {"cmd", "val", "string", "number", "any"}}

\* The texts of the model with at most one blank before and one after a
\* trimmed text, and the blank texts, with what trim() makes of them.
Padded ==
  {<<before \o x \o after, x>> :
     before \in {"", " "}, after \in {"", " "}, x \in TrimmedTexts \cup {""}}

TrimTable ==
  LET table(pairs) == [s \in {q[1] : q \in pairs} |-> (CHOOSE q \in pairs : q[1] = s)[2]]
  IN table(Padded)

\* String.prototype.trim
Trim(s) ==
  LET lookup(table) == IF s \in DOMAIN table THEN table[s] ELSE s
  IN lookup(TrimTable)

BraceTexts ==
  {"{ name: \"Al\" }", "{ name }", "{}"}
    \cup {"{ " \o q : q \in PropertyTexts}
    \cup {"{ " \o q \o " }" : q \in PropertyTexts}

\* startsWith('{') on a trimmed argument text.
StartsWithBrace(s) == Trim(s) \in BraceTexts

RECURSIVE JoinWith(_, _)
\* Array.prototype.join(sep)
JoinWith(seq, sep) ==
  IF seq = <<>> THEN ""
  ELSE IF Len(seq) = 1 THEN seq[1]
  ELSE seq[1] \o sep \o JoinWith(Tail(seq), sep)

\* text.ts isUndefinedLiteral: `!argText` is false for the empty string.
isUndefinedLiteral(argText) ==
  IF argText = "" THEN FALSE
  ELSE Trim(argText) \in {"", "undefined", "void 0", "void0", "void(0)"}

\* optionalParamFlags[i] === true (an index past the end is undefined).
FlagAt(optionalParamFlags, i) ==
  i \in DOMAIN optionalParamFlags /\ optionalParamFlags[i] = TRUE

\* buildCallReplacement without the `continue` for optional parameters.
CallPropNoOmit(argsTextArr, paramNames, optionalParamFlags, i) ==
  LET name == paramNames[i]
      argMissing == ~(i \in DOMAIN argsTextArr)
      argText == IF argMissing THEN "undefined" ELSE argsTextArr[i]
      emittedArg == IF argMissing \/ argText = "" THEN "undefined" ELSE argText
  IN IF Trim(emittedArg) = name
     THEN <<[name |-> name, arg |-> emittedArg, text |-> name]>>
     ELSE <<[name |-> name, arg |-> emittedArg,
             text |-> name \o ":" \o emittedArg]>>

\* buildCallReplacement with a `continue` for every missing argument.
CallPropSkipMissing(argsTextArr, paramNames, optionalParamFlags, i) ==
  LET name == paramNames[i]
      argMissing == ~(i \in DOMAIN argsTextArr)
      argText == IF argMissing THEN "undefined" ELSE argsTextArr[i]
      argIsUndefinedLiteral == ~argMissing /\ isUndefinedLiteral(argText)
      isOptional == FlagAt(optionalParamFlags, i)
      emittedArg == IF argMissing \/ argText = "" THEN "undefined" ELSE argText
  IN IF argMissing \/ (isOptional /\ argIsUndefinedLiteral) THEN <<>>
     ELSE IF Trim(emittedArg) = name
          THEN <<[name |-> name, arg |-> emittedArg, text |-> name]>>
          ELSE <<[name |-> name, arg |-> emittedArg,
                  text |-> name \o ":" \o emittedArg]>>

\* buildCallReplacement without the shorthand form.
CallPropNeverShorthand(argsTextArr, paramNames, optionalParamFlags, i) ==
  LET name == paramNames[i]
      argMissing == ~(i \in DOMAIN argsTextArr)
      argText == IF argMissing THEN "undefined" ELSE argsTextArr[i]
      argIsUndefinedLiteral == ~argMissing /\ isUndefinedLiteral(argText)
      isOptional == FlagAt(optionalParamFlags, i)
      emittedArg == IF argMissing \/ argText = "" THEN "undefined" ELSE argText
  IN IF isOptional /\ (argMissing \/ argIsUndefinedLiteral) THEN <<>>
     ELSE <<[name |-> name, arg |-> emittedArg,
             text |-> name \o ":" \o emittedArg]>>

\* One loop iteration of buildCallReplacement: the property emitted for
\* parameter i, or <<>> when the iteration `continue`s.
CallProp(argsTextArr, paramNames, optionalParamFlags, i) ==
  LET name == paramNames[i]
      argMissing == ~(i \in DOMAIN argsTextArr)
      argText == IF argMissing THEN "undefined" ELSE argsTextArr[i]
      argIsUndefinedLiteral == ~argMissing /\ isUndefinedLiteral(argText)
      isOptional == FlagAt(optionalParamFlags, i)
      emittedArg == IF argMissing \/ argText = "" THEN "undefined" ELSE argText
  IN IF isOptional /\ (argMissing \/ argIsUndefinedLiteral) THEN <<>>
     ELSE IF Trim(emittedArg) = name
          THEN <<[name |-> name, arg |-> emittedArg, text |-> name]>>
          ELSE <<[name |-> name, arg |-> emittedArg,
                  text |-> name \o ":" \o emittedArg]>>

RECURSIVE CallPropsFrom(_, _, _, _)
CallPropsFrom(argsTextArr, paramNames, optionalParamFlags, i) ==
  IF i > Len(paramNames) THEN <<>>
  ELSE CallProp(argsTextArr, paramNames, optionalParamFlags, i)
       \o CallPropsFrom(argsTextArr, paramNames, optionalParamFlags, i + 1)

\* The `props` array of text.ts buildCallReplacement (argsTextArr null is the
\* empty sequence: both give `undefined` for every index).
CallProps(argsTextArr, paramNames, optionalParamFlags) ==
  CallPropsFrom(argsTextArr, paramNames, optionalParamFlags, 1)

PropTexts(props) == [k \in DOMAIN props |-> props[k].text]

\* The replacement with the properties joined by ',' alone.
RenderCallCommaOnly(exprText, props) ==
  exprText \o "({ " \o JoinWith(PropTexts(props), ",") \o " })"

\* `${exprText}({ ${props.join(', ')} })`
RenderCall(exprText, props) ==
  exprText \o "({ " \o JoinWith(PropTexts(props), ", ") \o " })"

\* text.ts buildCallReplacement
buildCallReplacement(exprText, argsTextArr, paramNames, optionalParamFlags) ==
  RenderCall(exprText, CallProps(argsTextArr, paramNames, optionalParamFlags))

\* dialogs.ts buildCallReplacement (the preview helper): no optional flags,
\* no trim, a falsy argument text becomes 'undefined'.
PreviewProps(argsTextArr, paramNames) ==
  [i \in DOMAIN paramNames |->
    LET name == paramNames[i]
        aText == IF i \in DOMAIN argsTextArr /\ argsTextArr[i] # ""
                 THEN argsTextArr[i] ELSE "undefined"
    IN [name |-> name, arg |-> aText,
        text |-> IF aText = name THEN name ELSE name \o ":" \o aText]]

previewCallReplacement(exprText, argsTextArr, paramNames) ==
  RenderCall(exprText, PreviewProps(argsTextArr, paramNames))

\* ------------------------------------------------------- template markup

\* A match of the template scan is the text from the match on, as tokens:
\* the name, then "(", ")", "," and the texts between them (no token holds
\* a parenthesis or a comma inside, so indexOf and split act on tokens as
\* they act on characters).
RECURSIVE IndexOfTok(_, _, _)
\* String.prototype.indexOf for a one-character token, from position i
\* (0 when absent)
IndexOfTok(toks, t, i) ==
  IF i > Len(toks) THEN 0
  ELSE IF toks[i] = t THEN i
  ELSE IndexOfTok(toks, t, i + 1)

RECURSIVE ConcatToks(_)
ConcatToks(toks) ==
  IF toks = <<>> THEN "" ELSE toks[1] \o ConcatToks(Tail(toks))

RECURSIVE SplitComma(_, _)
\* argsText.split(','): the pieces between the commas, `acc` the piece so far
SplitComma(toks, acc) ==
  IF toks = <<>> THEN <<acc>>
  ELSE IF toks[1] = "," THEN <<acc>> \o SplitComma(Tail(toks), "")
  ELSE SplitComma(Tail(toks), acc \o toks[1])

\* .map(s => s.trim()).filter(s => s.length)
TrimNonEmpty(parts) ==
  SelectSeq([k \in DOMAIN parts |-> Trim(parts[k])], LAMBDA s : s # "")

NoReplacement == [ok |-> FALSE, replacement |-> "", props |-> <<>>,
                  args |-> <<>>, start |-> 0, end |-> 0]

\* text.ts buildTemplateCallReplacement; `end` counts tokens from the match.
buildTemplateCallReplacement(fullText, rangeStart, paramNames, optionalParamFlags) ==
  LET parenIndex == IndexOfTok(fullText, "(", 1)
      closeIndex == IndexOfTok(fullText, ")", 1)
  IN IF parenIndex = 0 \/ closeIndex <= parenIndex THEN NoReplacement
     ELSE
       LET argsText == SubSeq(fullText, parenIndex + 1, closeIndex - 1)
           argParts == TrimNonEmpty(SplitComma(argsText, ""))
           functionName == ConcatToks(SubSeq(fullText, 1, parenIndex - 1))
       IN IF Len(argParts) > Len(paramNames) THEN NoReplacement
          ELSE [ok |-> TRUE,
                replacement |-> buildCallReplacement(functionName, argParts,
                                                     paramNames, optionalParamFlags),
                props |-> CallProps(argParts, paramNames, optionalParamFlags),
                args |-> argParts,
                start |-> rangeStart,
                end |-> rangeStart + closeIndex]

\* ------------------------------------------------------------ the project

\* A parameter of the target.  typeNode is the text of the type annotation
\* ("" when there is none), type the text of the inferred type, question the
\* `?` token, init the text of the initializer ("" for none), rest the `...`
\* token, scope a parameter-property modifier ("" for none), typeToks the
\* pieces of a rest parameter's type annotation, toks the pieces of the
\* parameter's text when it is a binding pattern.
Param(name, typeNode, type, question, init) ==
  [name |-> name, typeNode |-> typeNode, type |-> type, question |-> question,
   init |-> init, rest |-> FALSE, scope |-> "", typeToks |-> <<>>, toks |-> <<>>]

ParamsTwo ==
  << Param("name", "string", "string", FALSE, ""),
     Param("age", "", "number", FALSE, "22") >>
ParamsThree ==
  << Param("name", "string", "string", FALSE, ""),
     Param("age", "number", "number", FALSE, ""),
     Param("email", "string", "string", TRUE, "") >>
ParamLists == {ParamsTwo, ParamsThree}

\* function createUser(name, age = 22): no type annotation
ParamsUntyped ==
  << Param("name", "", "any", FALSE, ""),
     Param("age", "", "number", FALSE, "22") >>

\* function createUser(name: string, age = getAge(1))
ParamsCallDefault ==
  << Param("name", "string", "string", FALSE, ""),
     [Param("age", "", "number", FALSE, "getAge(1)")
        EXCEPT !.toks = <<"age = getAge", "(", "1", ")">>] >>

\* name => save(name)
ParamsBare == << Param("name", "", "any", FALSE, "") >>

\* constructor(private name: string, age: number)
ParamsProperty ==
  << [Param("name", "string", "string", FALSE, "") EXCEPT !.scope = "private"],
     Param("age", "number", "number", FALSE, "") >>

\* function createUser({ name, age }: { name: string; age: number })
ParamsDestructured ==
  << [Param("{ name, age }", "{ name: string; age: number }",
            "{ name: string; age: number }", FALSE, "")
        EXCEPT !.toks = <<"{", " ", "name, age }", ": ",
                          "{", " ", "name: string; age: number }">>] >>

\* function createUser(opts: { name: string; age: number }) whose body
\* begins with `let { name, age } = opts;`
ParamsObjectVariable ==
  << Param("opts", "{ name: string; age: number }",
           "{ name: string; age: number }", FALSE, "") >>

\* A sole rest parameter `...args` with the type annotation of the pieces
RestParam(typeToks) ==
  << [Param("args", "", "any[]", FALSE, "") EXCEPT !.rest = TRUE, !.typeToks = typeToks] >>

\* ...args: [cmd: string, val: any]
RestNamed == RestParam(<<"[", "cmd", ":", " string", ",", " val", ":", " any", "]">>)
\* ...args: [string, number]
RestUnnamed == RestParam(<<"[", "string", ",", " number", "]">>)
\* ...args: string[]
RestArray == RestParam(<<"string", "[", "]">>)
\* ...args
RestUntyped == RestParam(<<>>)

ArgsAlice == << "\"Alice\"", "30", "\"alice@example.com\"" >>
ArgsBob == << "\"Bob\"", "25" >>
ArgsOne == << "\"Bob\"" >>
ArgsObject == << "{ name: \"Al\" }" >>
ArgsShort == << "name", "undefined", "void 0" >>
ArgsThis == << "this", "1" >>
\* a spread argument, and a call of the target as the first argument
ArgsSpread == << "...args" >>
ArgsNested == << fnName \o "(" \o JoinWith(ArgsBob, ", ") \o ")", "30" >>

\* A call expression of a parsed file.  exprText is expr.getText();
\* propName and objText are those of a PropertyAccessExpression callee ("" for
\* an identifier); sym is what expr.getSymbol() resolves to: the target's
\* declaration, another declaration, nothing, or "throws" when reading the
\* call's arguments throws.  within: the call is the first argument of the
\* call before it (getDescendantsOfKind lists a call before the calls in
\* its arguments).
DirectCall(sym, args) ==
  [exprText |-> fnName, propName |-> "", objText |-> "", sym |-> sym, args |-> args,
   within |-> FALSE]
PropCall(sym, args) ==
  [exprText |-> "api." \o fnName, propName |-> fnName, objText |-> "api",
   sym |-> sym, args |-> args, within |-> FALSE]
BoundCall(method) ==
  [exprText |-> fnName \o "." \o method, propName |-> method, objText |-> fnName,
   sym |-> "none", args |-> ArgsThis, within |-> FALSE]
NestedCall(sym, args) == [DirectCall(sym, args) EXCEPT !.within = TRUE]

CallShapes ==
  { DirectCall("target", ArgsAlice), DirectCall("target", ArgsBob),
    DirectCall("target", ArgsOne),
    DirectCall("target", ArgsObject),
    DirectCall("target", ArgsSpread),
    DirectCall("target", ArgsNested), NestedCall("target", ArgsBob),
    DirectCall("none", ArgsShort), DirectCall("none", ArgsObject),
    PropCall("none", ArgsBob),
    DirectCall("other", ArgsBob),
    DirectCall("throws", ArgsBob),
    BoundCall("call") }

\* The matches of fnName + '\s*\(' in a template file.
TemplatePlain == [toks |-> << fnName, "(", "name", ",", " age ", ")" >>,
                  inScript |-> FALSE, isFunctionDef |-> FALSE]
TemplateObject == [toks |-> << fnName, "(", "{ name }", ")" >>,
                   inScript |-> FALSE, isFunctionDef |-> FALSE]
TemplateMany == [toks |-> << fnName, "(", "1", ",", "2", ",", "3", ",", "4", ")" >>,
                 inScript |-> FALSE, isFunctionDef |-> FALSE]
TemplateScript == [toks |-> << fnName, "(", "name", ")" >>,
                   inScript |-> TRUE, isFunctionDef |-> FALSE]
TemplateDef == [toks |-> << fnName, "(", "name", ")" >>,
                inScript |-> FALSE, isFunctionDef |-> TRUE]
\* createUser(getName(), age) and createUser([1, 2], age)
TemplateNested ==
  [toks |-> << fnName, "(", "getName", "(", ")", ",", " age ", ")" >>,
   inScript |-> FALSE, isFunctionDef |-> FALSE]
TemplateBracket ==
  [toks |-> << fnName, "(", "[", "1", ",", " 2", "]", ",", " age ", ")" >>,
   inScript |-> FALSE, isFunctionDef |-> FALSE]
TemplateShapes ==
  {TemplatePlain, TemplateObject, TemplateMany, TemplateScript, TemplateDef,
   TemplateNested, TemplateBracket}

SeqsUpTo(S, n) == UNION { [1..k -> S] : k \in 0..n }

\* The calls of one file, in source order.

\* The parsed files of a project: the call expressions in file order
\* (a.ts, the target's file, then a.js) and source order within a file.
\* localDef: a.js declares a top-level function or function-valued variable
\* named fnName (its direct calls then never resolve to the target);
\* recursive: the first call of a.ts lies inside the target's own range (a
\* call that holds another call in its arguments lies outside the target).
ProjectsOf(n) ==
  { [calls |-> [k \in 1..n |->
                  [file |-> IF k <= nA THEN SourceFile ELSE OtherFile,
                   call |-> shapes[k]]],
     localDef |-> ld, recursive |-> rec] :
      shapes \in [1..n -> CallShapes], nA \in 0..n,
      ld \in BOOLEAN, rec \in BOOLEAN }

Projects == UNION { ProjectsOf(n) : n \in 0..MaxCalls }

WellFormedProject(p, resolved) ==
  /\ \A k \in DOMAIN p.calls :
       /\ (p.localDef /\ p.calls[k].file = OtherFile /\ p.calls[k].call.propName = "")
            => p.calls[k].call.sym # "target"
       /\ ~resolved => p.calls[k].call.sym # "target"
  /\ \A k \in DOMAIN p.calls :
       /\ p.calls[k].call.within =>
            /\ k > 1
            /\ p.calls[k - 1].file = p.calls[k].file
            /\ p.calls[k - 1].call.args = ArgsNested
       /\ p.calls[k].call.args = ArgsNested =>
            /\ k < Len(p.calls)
            /\ p.calls[k + 1].file = p.calls[k].file
            /\ p.calls[k + 1].call.within
  /\ p.localDef => \E k \in DOMAIN p.calls : p.calls[k].file = OtherFile
  /\ p.recursive =>
       \E k \in DOMAIN p.calls :
         /\ p.calls[k].file = SourceFile
         /\ \A j \in 1..(k - 1) : p.calls[j].file # SourceFile
         /\ p.calls[k].call.args # ArgsNested

\* targetFunction.getStart() and getEnd() in a.ts
targetStart == 0
targetEnd == 100

\* call.getStart() / call.getEnd() of the k-th call of the project: the calls
\* of a file lie 100 apart; in a recursive project the first call of a.ts
\* lies in the target's body, every other call of a.ts after the target.
StatementStart(p, k) ==
  LET inFile == Len(SelectSeq(SubSeq(p.calls, 1, k),
                              LAMBDA c : c.file = p.calls[k].file))
  IN IF p.calls[k].file = SourceFile /\ p.recursive
     THEN 100 * (inFile - 1) + 40
     ELSE 100 * inFile + 40

\* A call in the first argument of another starts after the other's
\* `createUser(` and ends before its `, 30)`.
CallStart(p, k) ==
  IF p.calls[k].call.within THEN StatementStart(p, k - 1) + 11
  ELSE StatementStart(p, k)
CallEnd(p, k) ==
  IF p.calls[k].call.within THEN StatementStart(p, k - 1) + 30 - 5
  ELSE StatementStart(p, k) + 30

\* m.index of the m-th match of the template file
MatchStart(m) == 100 * m + 40

ScoreTooManyArgs == 3
ScorePropertyAccess == 2
ScoreTemplate == 5
\* Math.abs(r.start - idx) < 20: the same call found twice
DuplicateTolerance == 20

VARIABLES
  pc,            \* where convertCommandHandler stands
  project,       \* the parsed source files (createProjectFromConfig)
  vueText,       \* the matches of the template file (read by collectCalls)
  target,        \* the target function: [params, overloads, layout, statements]
                 \*   and resolved, whether resolveSymbol found its symbol
  cfg,           \* [showPreviews, highlightDelay, objectVariable, preserveTypes]
  scan,          \* collectCalls: [idx, confirmed, fuzzy, alreadyConvertedCount,
                 \*                shouldAbort, reason]
  docs,          \* file -> the edits applied to the document and not undone
  dlg,           \* the dialog loops of the handler: [path, fuzzy, idx,
                 \*   accepted]
  hist,          \* what the attempt did: previews, reviews (`reviewed`, the
                 \*   candidates given to reviewFuzzyCall with the answers),
                 \*   applyEdit
  committed,     \* the WorkspaceEdit given to the last applyEdit
  finder,        \* findTargetFunction: [constructs, cursorOffset, result]
  fnTransform    \* transformFunctionText: [fnText, first, last, result]

vars == <<pc, project, vueText, target, cfg, scan, docs, dlg, hist, committed,
          finder, fnTransform>>

\* ------------------------------------------------- the target's parameters

\* The index of the first token from i on that is not white space (0 when
\* there is none)
RECURSIVE FirstNonBlank(_, _)
FirstNonBlank(toks, i) ==
  IF i > Len(toks) THEN 0
  ELSE IF Trim(toks[i]) = "" \/ toks[i] = "\n" THEN FirstNonBlank(toks, i + 1)
  ELSE i

\* The match of /\[([^\]]+)\]/ in a type text: the index of the first "["
\* that is followed by a text other than "]" and by a "]" (0 for no match).
RECURSIVE TupleOpen(_, _)
TupleOpen(typeToks, i) ==
  IF i >= Len(typeToks) THEN 0
  ELSE IF /\ typeToks[i] = "["
          /\ typeToks[i + 1] # "]"
          /\ IndexOfTok(typeToks, "]", i + 1) > 0
  THEN i
  ELSE TupleOpen(typeToks, i + 1)

\* tupleMatch[1].split(','), each element as its tokens
RECURSIVE SplitElements(_, _)
SplitElements(toks, acc) ==
  IF toks = <<>> THEN <<acc>>
  ELSE IF toks[1] = "," THEN <<acc>> \o SplitElements(Tail(toks), <<>>)
  ELSE SplitElements(Tail(toks), Append(acc, toks[1]))

\* The elements of the tuple type of a rest parameter (<<>> without a match)
TupleElements(typeToks) ==
  LET open == TupleOpen(typeToks, 1)
  IN IF open = 0 THEN <<>>
     ELSE SplitElements(SubSeq(typeToks, open + 1,
                               IndexOfTok(typeToks, "]", open + 1) - 1), <<>>)

\* colonIndex > 0 ? e.substring(0, colonIndex).trim() : e, on e.trim()
ElementName(el) ==
  LET colonIndex == IndexOfTok(el, ":", 1)
  IN IF colonIndex > 1 THEN Trim(ConcatToks(SubSeq(el, 1, colonIndex - 1)))
     ELSE Trim(ConcatToks(el))

\* colonIndex > 0 ? e.substring(colonIndex + 1).trim() : 'any'
ElementType(el) ==
  LET colonIndex == IndexOfTok(el, ":", 1)
  IN IF colonIndex > 1 THEN Trim(ConcatToks(SubSeq(el, colonIndex + 1, Len(el))))
     ELSE "any"

\* functions.ts extractParameterNames up to its dialog: the names, and
\* whether a rest parameter has no tuple elements to take them from.
extractParameterNames(params) ==
  IF Len(params) = 1 /\ params[1].rest
  THEN LET names(els) ==
             SelectSeq([k \in DOMAIN els |-> ElementName(els[k])], LAMBDA n : n # "")
           rest(restTupleElements) ==
             [isRestParameter |-> TRUE, paramNames |-> restTupleElements,
              restTupleElements |-> restTupleElements,
              refused |-> restTupleElements = <<>>]
       IN rest(names(TupleElements(params[1].typeToks)))
  ELSE [isRestParameter |-> FALSE,
        paramNames |-> [i \in DOMAIN params |-> params[i].name],
        restTupleElements |-> <<>>, refused |-> FALSE]

\* validateFunction without the check for overload signatures
validateFunctionNoOverloads(tgt) ==
  IF \E i \in DOMAIN tgt.params : tgt.params[i].scope # ""
  THEN "parameter properties"
  ELSE ""

\* functions.ts validateFunction: "" when the function can be converted
validateFunction(tgt) ==
  IF \E i \in DOMAIN tgt.params : tgt.params[i].scope # ""
  THEN "parameter properties"
  ELSE IF tgt.overloads THEN "overload signatures"
  ELSE ""

\* param.getText()
ParamText(q) ==
  (IF q.rest THEN "..." ELSE "")
    \o q.name \o (IF q.question THEN "?" ELSE "")
    \o (IF q.rest /\ q.typeToks # <<>> THEN ": " \o ConcatToks(q.typeToks)
        ELSE IF q.typeNode # "" THEN ": " \o q.typeNode ELSE "")
    \o (IF q.init # "" THEN " = " \o q.init ELSE "")

\* The text of a parameter in pieces: a "{" that opens a binding pattern is
\* a piece of its own.
ParamToks(q) == IF q.toks # <<>> THEN q.toks ELSE <<ParamText(q)>>

\* paramText.trim().startsWith('{')
isParamDestructured(q) ==
  LET first == FirstNonBlank(ParamToks(q), 1)
  IN first > 0 /\ ParamToks(q)[first] = "{"

\* commands.ts 278-288
hasObjectDestructuring(tgt) ==
  Len(tgt.params) = 1 /\ isParamDestructured(tgt.params[1])

\* The statement `let { <pattern> } = <objectVariable>;`
LetLine(pattern, objectVariable) ==
  "let { " \o pattern \o " } = " \o objectVariable \o ";"

\* objectifyParams.objectVariable: blank, or the name the object is bound to
ObjectVariableNames == {"opts"}

\* The destructuring patterns of the model's targets
Patterns == {"name, age", "name, age = 22", "name, age, email", "cmd, val",
             "string, number"}

\* A statement of the target's body as the parser gives it: its kind, the
\* kind of the first declaration's name and the text of its initializer.
ParseStatement(text) ==
  IF \E q \in Patterns, v \in ObjectVariableNames : text = LetLine(q, v)
  THEN [kind |-> "VariableStatement", nameKind |-> "ObjectBindingPattern",
        initializer |-> CHOOSE v \in ObjectVariableNames :
                          \E q \in Patterns : text = LetLine(q, v)]
  ELSE [kind |-> "ReturnStatement", nameKind |-> "", initializer |-> ""]

\* commands.ts detectObjectVariableDestructure
detectObjectVariableDestructure(tgt) ==
  /\ Len(tgt.params) = 1
  /\ tgt.params[1].name # ""
  /\ ~isParamDestructured(tgt.params[1])
  /\ \E k \in DOMAIN tgt.statements :
       LET stmt == ParseStatement(tgt.statements[k])
       IN /\ stmt.kind = "VariableStatement"
          /\ stmt.nameKind = "ObjectBindingPattern"
          /\ stmt.initializer = tgt.params[1].name

\* The handler from validateFunction to the call of collectCalls
\* (commands.ts 237-300): what it does with a target; `choice` is the
\* answer to the rest-parameter dialog of extractParameterNames.
Prelude(tgt, choice) ==
  IF validateFunction(tgt) # "" THEN "refused"
  ELSE IF extractParameterNames(tgt.params).refused THEN "refused"
  ELSE IF extractParameterNames(tgt.params).isRestParameter /\ choice # "Continue"
  THEN "cancelled"
  ELSE IF hasObjectDestructuring(tgt) \/ detectObjectVariableDestructure(tgt)
  THEN "alreadyDestructured"
  ELSE "collectCalls"

paramNames == extractParameterNames(target.params).paramNames

\* The optional flags the handler takes from extractParameterNames
\* (commands.ts:253) and hands to buildCallReplacement: a parameter is
\* optional when it has the optional marker or a default value.
OptionalFlags(params) ==
  [i \in DOMAIN params |-> params[i].question \/ params[i].init # ""]

optionalParamNames == OptionalFlags(target.params)

\* ---------------------------------------------------------- collectCalls

\* exprText === fnName || endsWith('.' + fnName) || endsWith('[' + fnName + ']')
looksLikeCall(call) ==
  \/ call.exprText = fnName
  \/ (call.propName = fnName /\ call.exprText = call.objText \o "." \o fnName)

\* The first check of the loop: a PropertyAccessExpression callee named call,
\* apply or bind whose object is the target (fnName or x.fnName).
isBoundUse(call) ==
  /\ call.propName \in {"call", "apply", "bind"}
  /\ call.objText = fnName

\* The second check (after looksLikeCall): exprText is fnName.call, .apply
\* or .bind.
isCallApplyBind(call) ==
  call.exprText \in {fnName \o ".call", fnName \o ".apply", fnName \o ".bind"}

\* A scan that never looks for a local definition.
noConflictingLocalDefinition(p, file) == FALSE

\* hasConflictingLocalDefinition(sf): never for the target's own file.
hasConflictingLocalDefinition(p, file) ==
  file # SourceFile /\ p.localDef

\* exprText !== fnName && (exprText.includes('.') || exprText.includes('['))
isPropertyAccess(call) == call.exprText # fnName /\ call.propName # ""

\* argsText.length === 1 && argsText[0].trim().startsWith('{')
isObjectCall(args) == Len(args) = 1 /\ StartsWithBrace(args[1])

Candidate(p, k, reason, score) ==
  [kind |-> "ast", file |-> p.calls[k].file,
   start |-> CallStart(p, k), end |-> CallEnd(p, k),
   exprText |-> p.calls[k].call.exprText, args |-> p.calls[k].call.args,
   reason |-> reason, score |-> score]

TemplateCandidate(m) ==
  [kind |-> "template", file |-> TemplateFile,
   start |-> MatchStart(m), end |-> MatchStart(m) + 10,
   exprText |-> fnName, args |-> <<>>,
   reason |-> "unresolved", score |-> ScoreTemplate]

Aborted(s, reason) ==
  [s EXCEPT !.confirmed = <<>>, !.fuzzy = <<>>, !.shouldAbort = TRUE,
            !.reason = reason, !.alreadyConvertedCount = 0]

Skip(s) == [s EXCEPT !.idx = @ + 1]

\* The resolved branch without the comparison of the argument count.
ClassifyResolvedAnyCount(s, p, k, nParams) ==
  LET args == p.calls[k].call.args
  IN IF isObjectCall(args)
     THEN [s EXCEPT !.idx = @ + 1, !.alreadyConvertedCount = @ + 1]
     ELSE [s EXCEPT !.idx = @ + 1,
            !.confirmed = Append(@, Candidate(p, k, "", 0))]

\* Lines 551-600: the callee resolved (and matched the target, if the target
\* has a symbol).
ClassifyResolved(s, p, k, nParams) ==
  LET args == p.calls[k].call.args
  IN IF isObjectCall(args)
     THEN [s EXCEPT !.idx = @ + 1, !.alreadyConvertedCount = @ + 1]
     ELSE IF Len(args) > nParams
     THEN [s EXCEPT !.idx = @ + 1,
            !.fuzzy = Append(@, Candidate(p, k, "too-many-args", ScoreTooManyArgs))]
     ELSE [s EXCEPT !.idx = @ + 1,
            !.confirmed = Append(@, Candidate(p, k, "", 0))]

\* The unresolved branch without the check of a property access.
ClassifyUnresolvedDirect(s, p, k, nParams, resolved) ==
  LET call == p.calls[k].call
      args == call.args
  IN IF isObjectCall(args) THEN Skip(s)
     ELSE IF /\ resolved /\ ~isPropertyAccess(call)
             /\ p.calls[k].file # SourceFile /\ p.localDef
     THEN Aborted(s, "collision")
     ELSE IF Len(args) > nParams
     THEN [s EXCEPT !.idx = @ + 1,
            !.fuzzy = Append(@, Candidate(p, k, "unresolved-too-many-args",
                                          ScoreTooManyArgs))]
     ELSE [s EXCEPT !.idx = @ + 1,
            !.confirmed = Append(@, Candidate(p, k, "", 0))]

\* Lines 642-758: the callee did not resolve.
ClassifyUnresolved(s, p, k, nParams, resolved) ==
  LET call == p.calls[k].call
      args == call.args
  IN IF isObjectCall(args) THEN Skip(s)
     ELSE IF /\ resolved /\ ~isPropertyAccess(call)
             /\ p.calls[k].file # SourceFile /\ p.localDef
     THEN Aborted(s, "collision")
     ELSE IF isPropertyAccess(call)
     THEN [s EXCEPT !.idx = @ + 1,
            !.fuzzy = Append(@, Candidate(p, k, "unresolved-property-access",
                                          ScorePropertyAccess))]
     ELSE IF Len(args) > nParams
     THEN [s EXCEPT !.idx = @ + 1,
            !.fuzzy = Append(@, Candidate(p, k, "unresolved-too-many-args",
                                          ScoreTooManyArgs))]
     ELSE [s EXCEPT !.idx = @ + 1,
            !.confirmed = Append(@, Candidate(p, k, "", 0))]

\* The warning of the first call/apply/bind check: only when the document
\* opened and an editor is active does collectCalls return; otherwise the
\* loop continues with the next call.
BoundUseOutcome(s, shown) ==
  IF shown THEN Aborted(s, "call-apply-bind") ELSE Skip(s)

\* One iteration of `for (const call of calls)`: lines 319-759.  `shown`
\* is whether a warning could be displayed (the document opened and
\* vscode.window.activeTextEditor was set), `answer` the button pressed in
\* the second call/apply/bind warning.
ScanStep(s, p, k, nParams, resolved, shown, answer) ==
  LET call == p.calls[k].call
      file == p.calls[k].file
  IN IF isBoundUse(call) THEN BoundUseOutcome(s, shown)
     ELSE IF ~looksLikeCall(call) THEN Skip(s)
     ELSE IF hasConflictingLocalDefinition(p, file) THEN Aborted(s, "collision")
     ELSE IF isCallApplyBind(call)
     THEN (IF shown /\ answer = "Cancel Scanning"
           THEN Aborted(s, "call-apply-bind") ELSE Skip(s))
     ELSE IF call.sym = "none"
     THEN ClassifyUnresolved(s, p, k, nParams, resolved)
     ELSE IF resolved /\ call.sym = "other" THEN Aborted(s, "collision")
     ELSE IF call.sym = "throws" THEN Aborted(s, "parse-error")
     ELSE ClassifyResolved(s, p, k, nParams)

\* Lines 782-806: the ranges of the candidates found in the parsed files.
existingRanges(s) ==
  {[file |-> c.file, start |-> c.start, end |-> c.end] :
     c \in {s.confirmed[i] : i \in DOMAIN s.confirmed}
           \cup {s.fuzzy[i] : i \in DOMAIN s.fuzzy}}

Abs(n) == IF n < 0 THEN -n ELSE n

isDuplicate(ranges, file, idx) ==
  \E r \in ranges : r.file = file /\ Abs(r.start - idx) < DuplicateTolerance

RECURSIVE TemplateMatches(_, _, _)
\* Lines 825-875: the candidates pushed for the matches m.. of the template
\* file; every match outside a script block that is neither a definition nor
\* a duplicate is pushed, whatever its arguments are.
TemplateMatches(vue, m, ranges) ==
  IF m > Len(vue) THEN <<>>
  ELSE IF \/ vue[m].inScript
          \/ vue[m].isFunctionDef
          \/ isDuplicate(ranges, TemplateFile, MatchStart(m))
  THEN TemplateMatches(vue, m + 1, ranges)
  ELSE <<TemplateCandidate(m)>> \o TemplateMatches(vue, m + 1, ranges)

\* Lines 762-887: the template scan and the result of collectCalls.
ScanTemplateFiles(s, vue) ==
  [s EXCEPT !.fuzzy = @ \o TemplateMatches(vue, 1, existingRanges(s))]

\* ------------------------------------------------------- the function text

\* call.getText() of a call of the parsed files
CallText(call) == call.exprText \o "(" \o JoinWith(call.args, ", ") \o ")"

\* The calls of the project that lie in the target's body.
InnerCalls(p) ==
  SelectSeq([k \in DOMAIN p.calls |-> k],
            LAMBDA k : /\ p.calls[k].file = SourceFile
                       /\ CallStart(p, k) >= targetStart
                       /\ CallEnd(p, k) <= targetEnd)

\* A function on one line, or with each statement on a line of its own
Layouts == {"single", "multi"}

\* The white space before a statement of the body
Lead(layout) == IF layout = "multi" THEN <<"\n", "  ">> ELSE <<" ">>

RECURSIVE BodyToks(_, _)
BodyToks(statements, layout) ==
  IF statements = <<>> THEN <<>>
  ELSE Lead(layout) \o <<statements[1]>> \o BodyToks(Tail(statements), layout)

\* targetFunction.getText() in pieces: the text up to the first "(", the
\* parameter list, the text from the matching ")" to the return statement,
\* the calls in it, and the end of the body.  A "{", a ")" and a line break
\* outside the calls are pieces of their own.
originalFunctionText(p, tgt) ==
  [before |-> "function " \o fnName \o "(",
   params |-> IF Len(tgt.params) = 1 THEN ParamToks(tgt.params[1])
              ELSE <<JoinWith([i \in DOMAIN tgt.params |-> ParamText(tgt.params[i])],
                              ", ")>>,
   after |-> <<")", " ", "{">> \o BodyToks(tgt.statements, tgt.layout)
               \o Lead(tgt.layout) \o <<"return ">>,
   inner |-> [j \in DOMAIN InnerCalls(p) |->
               LET k == InnerCalls(p)[j]
               IN [start |-> CallStart(p, k), end |-> CallEnd(p, k),
                   text |-> CallText(p.calls[k].call),
                   props |-> <<>>, args |-> p.calls[k].call.args,
                   converted |-> FALSE]],
   tail |-> IF tgt.layout = "multi" THEN <<"\n", "}">> ELSE <<" }">>]

\* The pieces of a function text in the order of the text
FnToks(fn) ==
  <<fn.before>> \o fn.params \o fn.after
    \o <<JoinWith([j \in DOMAIN fn.inner |-> fn.inner[j].text], "; ")>> \o fn.tail

\* parse.ts extractParameterTypes for a TypeScript file: the type literal
\* `{ a: T; b?: U }` in pieces, the "{" and the blank after it being pieces
\* of their own.  Only the `?` token makes a property optional.
extractParameterTypes(params, names, isRestParameter, restTupleElements) ==
  LET els == TupleElements(params[1].typeToks)
      paramType(i) ==
        IF isRestParameter
        THEN (IF restTupleElements # <<>> /\ i \in DOMAIN els
              THEN ElementType(els[i]) ELSE "any")
        ELSE IF params[i].typeNode # "" THEN params[i].typeNode
        ELSE params[i].type
      param(i) == IF isRestParameter THEN params[1] ELSE params[i]
  IN <<"{", " ",
       JoinWith([i \in DOMAIN names |->
                          names[i] \o (IF param(i).question THEN "?" ELSE "") \o ": "
                            \o (IF paramType(i) = "" THEN "any" ELSE paramType(i))],
                       "; ") \o " }">>

\* text.ts transformFunctionText, lines 934-972 (TypeScript): the new
\* parameter list is `{ a, b = d }: <type>`, or `<objectVariable>: <type>`;
\* the type is `any` when types are not preserved.
paramsWithDefaults(params, names, isRestParameter) ==
  IF isRestParameter THEN JoinWith(names, ", ")
  ELSE JoinWith([i \in DOMAIN params |->
                   IF params[i].init # ""
                   THEN params[i].name \o " = " \o params[i].init
                   ELSE params[i].name], ", ")

newParams(params, names, paramTypeText, isRestParameter, options) ==
  LET objectVar == options.objectVariableName
      resolvedTypeText ==
        IF options.preserveTypes /\ paramTypeText # <<>> THEN paramTypeText
        ELSE <<"any">>
  IN IF objectVar # "" THEN <<objectVar, ": ">> \o resolvedTypeText
     ELSE <<"{", " ", paramsWithDefaults(params, names, isRestParameter) \o " }", ": ">>
            \o resolvedTypeText

\* text.ts transformFunctionText on the pieces of the target's text, whose
\* first "(" opens the parameter list.
transformFunctionText(fnText, params, names, paramTypeText, isRestParameter, options) ==
  [text |-> [fnText EXCEPT !.params =
               newParams(params, names, paramTypeText, isRestParameter, options)],
   destructuredParams |-> paramsWithDefaults(params, names, isRestParameter)]

RECURSIVE closeParen(_, _, _)
\* text.ts transformFunctionText, lines 924-931: the loop from the character
\* after `open` until depth is 0 or the text ends; `close` is the last
\* character looked at.
closeParen(fnText, i, depth) ==
  IF i > Len(fnText) THEN Len(fnText)
  ELSE IF fnText[i] = ")" /\ depth = 1 THEN i
  ELSE closeParen(fnText, i + 1,
                  IF fnText[i] = "(" THEN depth + 1
                  ELSE IF fnText[i] = ")" THEN depth - 1 ELSE depth)

\* text.ts transformFunctionText, lines 917-933 and 974, on a text in which
\* every parenthesis is a piece of its own: before + newParams + after.
transformFunctionString(fnText, replacement) ==
  LET open == IndexOfTok(fnText, "(", 1)
      between(close) ==
        SubSeq(fnText, 1, open) \o replacement \o SubSeq(fnText, close, Len(fnText))
  IN IF open = 0 THEN fnText
     ELSE between(closeParen(fnText, open + 1, 1))

\* text.ts insertObjectVariableDestructureLine on the pieces of the function
\* text: the line goes after the first line break that follows the first
\* "{" of the text, or right after that "{" when no line break follows.
insertObjectVariableDestructureLine(fnText, destructuredParams, objectVariableName) ==
  LET braceIndex == IndexOfTok(fnText, "{", 1)
      beforeBody == SubSeq(fnText, 1, braceIndex)
      afterBody == SubSeq(fnText, braceIndex + 1, Len(fnText))
      eol == "\n"
      newlineIndex == IndexOfTok(afterBody, "\n", 1)
      line == LetLine(destructuredParams, objectVariableName)
      blankAt(toks) == toks # <<>> /\ toks[1] # "\n" /\ Trim(toks[1]) = ""
  IN IF Trim(destructuredParams) = "" \/ objectVariableName = "" THEN fnText
     ELSE IF braceIndex = 0 THEN fnText
     ELSE IF newlineIndex > 0
     THEN LET beforeNextLine == SubSeq(afterBody, 1, newlineIndex)
              rest == SubSeq(afterBody, newlineIndex + 1, Len(afterBody))
              indent == IF blankAt(rest) THEN rest[1] ELSE ""
          IN beforeBody \o beforeNextLine \o <<indent, line, eol>> \o rest
     ELSE LET indent == IF blankAt(afterBody) THEN afterBody[1] ELSE ""
              rest == IF blankAt(afterBody) THEN Tail(afterBody) ELSE afterBody
          IN beforeBody \o <<eol, indent, line, eol, indent>> \o rest

\* commands.ts splitInternalCalls: a call of the target's file that lies
\* within the target is internal.
isInternal(c) ==
  /\ c.file = SourceFile /\ c.kind = "ast"
  /\ c.start >= targetStart /\ c.end <= targetEnd

splitInternalCalls(calls) ==
  [internal |-> SelectSeq(calls, isInternal),
   external |-> SelectSeq(calls, LAMBDA c : ~isInternal(c))]

\* commands.ts applyInternalCallReplacements: each internal call's text in
\* the function text is replaced by its object form.
applyInternalCallReplacements(fnText, internalCalls, names, flags) ==
  [fnText EXCEPT !.inner =
     [j \in DOMAIN @ |->
        IF \E i \in DOMAIN internalCalls :
             internalCalls[i].start = @[j].start /\ internalCalls[i].end = @[j].end
        THEN LET c == internalCalls[CHOOSE i \in DOMAIN internalCalls :
                        /\ internalCalls[i].start = @[j].start
                        /\ internalCalls[i].end = @[j].end]
             IN [@[j] EXCEPT
                   !.text = buildCallReplacement(c.exprText, c.args, names, flags),
                   !.props = CallProps(c.args, names, flags),
                   !.converted = TRUE]
        ELSE @[j]]]

RECURSIVE InsertByScore(_, _)
InsertByScore(sorted, c) ==
  IF sorted = <<>> THEN <<c>>
  ELSE IF c.score > sorted[1].score THEN <<c>> \o sorted
  ELSE <<sorted[1]>> \o InsertByScore(Tail(sorted), c)

RECURSIVE SortByScore(_)
\* fuzzy.sort((a, b) => (b.score || 0) - (a.score || 0)): descending and
\* stable.
SortByScore(seq) ==
  IF seq = <<>> THEN <<>>
  ELSE InsertByScore(SortByScore(SubSeq(seq, 1, Len(seq) - 1)), seq[Len(seq)])

\* Lines 624-641: fuzzy candidates that are also confirmed are dropped, the
\* rest is ordered by score.
ReviewOrder(confirmed, fuzzy) ==
  LET confirmedSet == {<<confirmed[i].file, confirmed[i].start, confirmed[i].end>> :
                         i \in DOMAIN confirmed}
  IN SortByScore(SelectSeq(fuzzy, LAMBDA f :
       f.kind = "template" \/ <<f.file, f.start, f.end>> \notin confirmedSet))

\* ------------------------------------------------------------------ edits

\* An edit: the replaced range of a file, the new text, and for a call the
\* callee, the argument texts and the properties the new text is made of.
FunctionEdit(fn) ==
  [file |-> SourceFile, start |-> targetStart, end |-> targetEnd, expr |-> "",
   text |-> ConcatToks(fn.toks), toks |-> fn.toks, props |-> <<>>, args |-> <<>>,
   inner |-> fn.inner]

CallEdit(c, names, flags) ==
  [file |-> c.file, start |-> c.start, end |-> c.end, expr |-> c.exprText,
   text |-> buildCallReplacement(c.exprText, c.args, names, flags),
   props |-> CallProps(c.args, names, flags), args |-> c.args, inner |-> <<>>]

\* The preview edit of monitorConfirmedCalls and showFuzzyConversionPreview
\* for a call of a parsed file (dialogs.ts buildCallReplacement).
PreviewCallEdit(c, names) ==
  [file |-> c.file, start |-> c.start, end |-> c.end, expr |-> c.exprText,
   text |-> previewCallReplacement(c.exprText, c.args, names),
   props |-> PreviewProps(c.args, names), args |-> c.args, inner |-> <<>>]

TemplateEdit(c, r) ==
  [file |-> c.file, start |-> r.start, end |-> r.end, expr |-> fnName,
   text |-> r.replacement, props |-> r.props, args |-> r.args, inner |-> <<>>]

RECURSIVE PropToks(_, _)
PropToks(props, k) ==
  IF k > Len(props) THEN <<>>
  ELSE (IF k > 1 THEN <<",">> ELSE <<>>)
       \o << (IF k = 1 THEN "{ " ELSE " ") \o props[k].text
             \o (IF k = Len(props) THEN " }" ELSE "") >>
       \o PropToks(props, k + 1)

\* The tokens of a replacement `${expr}({ ${props.join(', ')} })`
ReplacementToks(e) ==
  <<e.expr, "(">> \o (IF e.props = <<>> THEN <<"{  }">> ELSE PropToks(e.props, 1))
                  \o <<")">>

MatchIndex(start) == (start - 40) \div 100

\* doc.getText() of the template file from the offset of a match on: the
\* text of the last edit applied there and not undone, else the file's text.
TextAtMatch(d, vue, start) ==
  LET own == SelectSeq(d[TemplateFile], LAMBDA e : e.start = start)
  IN IF own = <<>> THEN vue[MatchIndex(start)].toks
     ELSE ReplacementToks(own[Len(own)])

\* editor.edit / workspace.applyEdit of one edit, and the undo command
ApplyTo(d, e) == [d EXCEPT ![e.file] = Append(@, e)]
Undo(d, file) == [d EXCEPT ![file] = SubSeq(@, 1, Len(@) - 1)]

RECURSIVE ApplyAll(_, _)
ApplyAll(d, edits) ==
  IF edits = <<>> THEN d ELSE ApplyAll(ApplyTo(d, edits[1]), Tail(edits))

Snapshot == [f \in Files |-> <<>>]

\* ------------------------------------------------------- findTargetFunction

\* The offsets of the source file given to findTargetFunction
MaxOffset == 5

\* The number of function-like constructs in it
MaxConstructs == 2

\* The function-like constructs: a function declaration, a variable
\* declaration whose initializer is an arrow function or a function
\* expression, a method of a class, a method of an object literal.
ConstructKinds ==
  {"FunctionDeclaration", "VariableDeclaration", "ClassMethod", "ObjectMethod"}

Construct(kind, start, end) == [kind |-> kind, start |-> start, end |-> end]

\* The constructs that enclose the i-th
Enclosing(cs, i) ==
  {j \in DOMAIN cs : cs[j].start < cs[i].start /\ cs[i].end < cs[j].end}

\* The constructs of a source file in the order of the text: two of them lie
\* apart or one within the other.
SourceFiles ==
  {cs \in SeqsUpTo({Construct(kind, start, end) :
                      kind \in ConstructKinds, start \in 0..MaxOffset,
                      end \in 0..MaxOffset}, MaxConstructs) :
     /\ \A i \in DOMAIN cs : cs[i].start < cs[i].end
     /\ \A i, j \in DOMAIN cs :
          i < j => \/ cs[i].end < cs[j].start
                   \/ i \in Enclosing(cs, j)}

\* start <= cursorOffset && cursorOffset <= end
AtCursor(c, cursorOffset) == c.start <= cursorOffset /\ cursorOffset <= c.end

\* The first element of a loop over the constructs that satisfy `found`
\* (0 when the loop ends without a break)
FirstOf(found) == IF found = {} THEN 0 ELSE CHOOSE i \in found : \A j \in found : i <= j

\* functions.ts findTargetFunction: the index of targetFunction (0 for null).
\* getFunctions, getVariableDeclarations and getClasses give the statements
\* of the source file itself; getDescendantsOfKind(MethodDeclaration) gives
\* every method, of a class or an object literal, in the order of the text.
findTargetFunction(cs, cursorOffset) ==
  LET at(kinds, top) ==
        FirstOf({i \in DOMAIN cs : /\ cs[i].kind \in kinds
                                   /\ top => Enclosing(cs, i) = {}
                                   /\ AtCursor(cs[i], cursorOffset)})
      methods(fromClasses) ==
        IF fromClasses # 0 THEN fromClasses
        ELSE at({"ClassMethod", "ObjectMethod"}, FALSE)
      classes(fromVars) ==
        IF fromVars # 0 THEN fromVars ELSE methods(at({"ClassMethod"}, TRUE))
      variables(fromFunctions) ==
        IF fromFunctions # 0 THEN fromFunctions
        ELSE classes(at({"VariableDeclaration"}, TRUE))
  IN variables(at({"FunctionDeclaration"}, TRUE))

\* No result yet
Pending == -1

\* The source file of the handler's target: the function at the cursor
TargetFound ==
  [constructs |-> <<Construct("FunctionDeclaration", 0, MaxOffset)>>,
   cursorOffset |-> 0, result |-> 1]

\* ---------------------------------------------------- convertCommandHandler

\* objectifyParams.highlightDelay: previews are skipped at 0
HighlightDelays == {0, 500}

\* What the editor does when a preview is opened: the document is shown and
\* stays so, there is no active editor, or a call of the try block throws
\* before or after editor.edit.
PreviewOutcomes == {"shown", "noEditor", "throwEarly", "throwLate"}

\* A function declaration of the parameters, on one line, without overload
\* signatures, whose body is a return statement.
Target(params, resolved) ==
  [params |-> params, resolved |-> resolved, overloads |-> FALSE,
   layout |-> "single", statements |-> <<>>]

NoPreview == [fn |-> "", before |-> Snapshot, after |-> Snapshot, returned |-> FALSE]

\* transformFunctionText has not been given a text of its own.
NotTransformed == [fnText |-> <<>>, first |-> 0, last |-> 0, result |-> <<>>]

\* The attempt has not begun: the target is found, nothing is scanned,
\* shown or edited.
NotStarted ==
  /\ pc = "idle"
  /\ finder = TargetFound
  /\ fnTransform = NotTransformed
  /\ scan = [idx |-> 1, confirmed |-> <<>>, fuzzy |-> <<>>,
             alreadyConvertedCount |-> 0, shouldAbort |-> FALSE, reason |-> ""]
  /\ docs = Snapshot
  /\ dlg = [path |-> "", fuzzy |-> <<>>, idx |-> 1, accepted |-> <<>>]
  /\ hist = [outcome |-> "", applyCount |-> 0, applied |-> FALSE, message |-> "",
             dialogs |-> 0, dialogsAtApply |-> 0, preview |-> NoPreview,
             reviewed |-> <<>>, scans |-> 0, second |-> ""]
  /\ committed = <<>>

\* A project of up to MaxCalls calls and template matches, a target with a
\* plain parameter list, inline destructuring with the types preserved.
Init ==
  /\ NotStarted
  /\ \E n \in 0..MaxCalls, resolved \in BOOLEAN :
       \E p \in { q \in ProjectsOf(n) : WellFormedProject(q, resolved) } :
         /\ project = p
         /\ vueText \in SeqsUpTo(TemplateShapes, MaxCalls - n)
         /\ target \in {Target(params, resolved) : params \in ParamLists}
  /\ cfg \in [showPreviews : BOOLEAN, highlightDelay : HighlightDelays,
              objectVariable : {""}, preserveTypes : {TRUE}]

\* The targets of every shape: each parameter list on one line and on
\* several, a function with overload signatures, and a function that binds
\* its object to `opts` and destructures it in the body.
Targets(resolved) ==
  {[Target(params, resolved) EXCEPT !.layout = layout] :
     params \in {ParamsTwo, ParamsThree, ParamsUntyped, ParamsProperty,
                 ParamsDestructured, RestNamed, RestUnnamed, RestArray,
                 RestUntyped},
     layout \in Layouts}
  \cup {[Target(ParamsTwo, resolved) EXCEPT !.overloads = TRUE]}
  \cup {[Target(ParamsObjectVariable, resolved) EXCEPT
           !.statements = <<LetLine("name, age", "opts")>>, !.layout = layout] :
          layout \in Layouts}

\* A project of up to MaxCallsAnyTarget calls, a target of any shape and any
\* setting of objectVariable and preserveTypes.
InitAnyTarget ==
  /\ NotStarted
  /\ \E n \in 0..MaxCallsAnyTarget, resolved \in BOOLEAN :
       \E p \in { q \in ProjectsOf(n) : WellFormedProject(q, resolved) } :
         /\ project = p
         /\ vueText = <<>>
         /\ target \in Targets(resolved)
  /\ cfg \in [showPreviews : BOOLEAN, highlightDelay : HighlightDelays,
              objectVariable : {""} \cup ObjectVariableNames,
              preserveTypes : BOOLEAN]

Cancelled(h) ==
  [h EXCEPT !.outcome = "cancelled",
            !.message = "Operation cancelled - no changes made."]

\* What the handler has done when it comes to collectCalls or returns
\* before it (commands.ts 237-300, functions.ts 133-256).
AfterPrelude(h, result) ==
  CASE result = "collectCalls" -> [h EXCEPT !.scans = @ + 1]
    [] result = "cancelled" -> Cancelled(h)
    [] result = "refused" ->
         [h EXCEPT !.outcome = "refused",
                   !.message = "This function cannot be converted"]
    [] result = "alreadyDestructured" ->
         [h EXCEPT !.outcome = "alreadyDestructured",
                   !.message = "This function already uses object parameter destructuring."]

\* The answers to the dialog of extractParameterNames: it is shown for a
\* rest parameter with tuple elements.
RestDialogAnswers(tgt) ==
  IF /\ validateFunction(tgt) = ""
     /\ extractParameterNames(tgt.params).isRestParameter
     /\ ~extractParameterNames(tgt.params).refused
  THEN {"Continue", "Cancel"} ELSE {"Continue"}

\* The command is invoked with the cursor in the target (lines 158-333):
\* the target is validated, then collectCalls is called.
Invoke ==
  /\ pc = "idle"
  /\ \E choice \in RestDialogAnswers(target) :
       LET result == Prelude(target, choice)
       IN /\ pc' = IF result = "collectCalls" THEN "scan" ELSE "done"
          /\ hist' = AfterPrelude(hist, result)
  /\ UNCHANGED <<finder, fnTransform, project, vueText, target, cfg, scan, docs, dlg, committed>>

\* collectCalls, one call expression (part_006 lines 319-759); an abort
\* returns to the handler, which ends the attempt (commands.ts 350-355).
ScanCall ==
  /\ pc = "scan"
  /\ scan.idx <= Len(project.calls)
  /\ \E shown \in IF isBoundUse(project.calls[scan.idx].call)
                  THEN BOOLEAN ELSE {TRUE},
        answer \in IF /\ looksLikeCall(project.calls[scan.idx].call)
                      /\ isCallApplyBind(project.calls[scan.idx].call)
                   THEN {"Cancel Scanning", "dismissed"} ELSE {"dismissed"} :
       LET s == ScanStep(scan, project, scan.idx, Len(paramNames),
                         target.resolved, shown, answer)
       IN /\ scan' = s
          /\ pc' = IF s.shouldAbort THEN "done" ELSE "scan"
          /\ hist' = IF s.shouldAbort THEN Cancelled(hist) ELSE hist
  /\ UNCHANGED <<finder, fnTransform, project, vueText, target, cfg, docs, dlg, committed>>

\* collectCalls, the template files and the return (lines 762-887)
ScanTemplates ==
  /\ pc = "scan"
  /\ scan.idx > Len(project.calls)
  /\ scan' = ScanTemplateFiles(scan, vueText)
  /\ pc' = "collected"
  /\ UNCHANGED <<finder, fnTransform, project, vueText, target, cfg, docs, dlg, hist, committed>>

\* The three paths of the handler (lines 389, 464, 624).
PathOf(s) ==
  IF s.confirmed = <<>> /\ s.fuzzy = <<>> THEN "signature"
  ELSE IF s.fuzzy = <<>> THEN "confirmed"
  ELSE "mixed"

\* The loop position after the review of candidate idx - 1: the next
\* candidate, then the confirmed previews (lines 737-756), then the edit.
AfterReview(idx, fuzzy) ==
  IF idx <= Len(fuzzy) THEN "review"
  ELSE IF cfg.showPreviews /\ scan.confirmed # <<>> THEN "monitor"
  ELSE "commit"

AfterMonitor(idx) ==
  IF idx <= Len(scan.confirmed) THEN "monitor" ELSE "commit"

\* Lines 357-464 and 624-650: the path is chosen.
Dispatch ==
  /\ pc = "collected"
  /\ LET path == PathOf(scan)
         fuzzy == ReviewOrder(scan.confirmed, scan.fuzzy)
     IN IF path = "signature" /\ scan.alreadyConvertedCount > 0
        THEN /\ pc' = "done"
             /\ hist' = [hist EXCEPT !.outcome = "alreadyConverted",
                           !.message = "All call(s) already use object parameter syntax."]
             /\ dlg' = dlg
        ELSE /\ dlg' = [path |-> path, idx |-> 1, accepted |-> <<>>,
                        fuzzy |-> IF path = "mixed" THEN fuzzy ELSE <<>>]
             /\ pc' = IF cfg.showPreviews THEN "functionDialog"
                      ELSE IF path = "mixed" THEN AfterReview(1, fuzzy)
                      ELSE "commit"
             /\ hist' = hist
  /\ UNCHANGED <<finder, fnTransform, project, vueText, target, cfg, scan, docs, committed>>

transformOptions ==
  [objectVariableName |-> cfg.objectVariable, preserveTypes |-> cfg.preserveTypes]

\* commands.ts applyFunctionTransform (lines 366-387): the pieces of the new
\* function text, with the calls in it.
applyFunctionTransform(sourceFnText, paramTypeText) ==
  LET result(transformed, fnToks) ==
        [toks |-> IF cfg.objectVariable # ""
                  THEN insertObjectVariableDestructureLine(
                         fnToks, transformed.destructuredParams, cfg.objectVariable)
                  ELSE fnToks,
         inner |-> transformed.text.inner]
      withText(transformed) == result(transformed, FnToks(transformed.text))
  IN withText(transformFunctionText(sourceFnText, target.params, paramNames,
                                    paramTypeText,
                                    extractParameterNames(target.params).isRestParameter,
                                    transformOptions))

\* The converted function text of each path (lines 400-411, 465-494,
\* 655-665, 800-810, 846-856).
newFnText(path) ==
  LET paramTypeText(info) ==
        extractParameterTypes(target.params, info.paramNames,
                              info.isRestParameter, info.restTupleElements)
      sourceFnText(orig) ==
        IF path = "confirmed"
        THEN applyInternalCallReplacements(orig,
               splitInternalCalls(scan.confirmed).internal,
               paramNames, optionalParamNames)
        ELSE orig
  IN applyFunctionTransform(sourceFnText(originalFunctionText(project, target)),
                            paramTypeText(extractParameterNames(target.params)))

AfterFunctionDialog ==
  IF dlg.path = "mixed" THEN AfterReview(1, dlg.fuzzy)
  ELSE IF dlg.path = "confirmed" THEN "monitor"
  ELSE "commit"

Returned(h, fn, before, after) ==
  [h EXCEPT !.preview = [fn |-> fn, before |-> before, after |-> after,
                         returned |-> TRUE]]

Entered(h, fn, before) ==
  [h EXCEPT !.dialogs = @ + 1,
            !.preview = [fn |-> fn, before |-> before, after |-> before,
                         returned |-> FALSE]]

\* dialogs.ts showFunctionConversionDialog up to the modal dialog (lines
\* 45-114); without an editor or on an exception it returns false.
OpenFunctionDialog ==
  /\ pc = "functionDialog"
  /\ \E edited \in {ApplyTo(docs, FunctionEdit(newFnText(dlg.path)))},
        outcome \in PreviewOutcomes :
          CASE outcome = "shown" ->
                 /\ docs' = edited
                 /\ pc' = "functionDialogOpen"
                 /\ hist' = Entered(hist, "showFunctionConversionDialog", docs)
            [] outcome = "throwLate" ->
                 /\ docs' = edited
                 /\ pc' = AfterFunctionDialog
                 /\ hist' = Returned(hist, "showFunctionConversionDialog", docs, edited)
            [] OTHER ->
                 /\ docs' = docs
                 /\ pc' = AfterFunctionDialog
                 /\ hist' = Returned(hist, "showFunctionConversionDialog", docs, docs)
  /\ UNCHANGED <<finder, fnTransform, project, vueText, target, cfg, scan, dlg, committed>>

\* showFunctionConversionDialog from the answer on (lines 116-149): undo,
\* then true when the dialog was cancelled.
AnswerFunctionDialog ==
  /\ pc = "functionDialogOpen"
  /\ \E choice \in {"Continue", "cancel"} :
       /\ docs' = Undo(docs, SourceFile)
       /\ pc' = IF choice = "cancel" THEN "done" ELSE AfterFunctionDialog
       /\ hist' = LET h == Returned(hist, "showFunctionConversionDialog",
                                    hist.preview.before, docs')
                  IN IF choice = "cancel" THEN Cancelled(h) ELSE h
  /\ UNCHANGED <<finder, fnTransform, project, vueText, target, cfg, scan, dlg, committed>>

\* What the review loop did with a candidate: the answer to reviewFuzzyCall.
Reviewed(c, choice) == [c |-> c, choice |-> choice]

\* dialogs.ts reviewFuzzyCall and the handler's loop body (lines 693-734):
\* cancel aborts, Skip continues, Convert accepts the candidate and calls
\* showFuzzyConversionPreview, which returns at once when highlightDelay
\* is 0.
ReviewFuzzyCall ==
  /\ pc = "review"
  /\ dlg.idx <= Len(dlg.fuzzy)
  /\ \E choice \in {"Convert", "Skip", "cancel"} :
       CASE choice = "cancel" ->
              /\ pc' = "done"
              /\ dlg' = dlg
              /\ hist' = Cancelled([hist EXCEPT !.dialogs = @ + 1])
         [] choice = "Skip" ->
              /\ pc' = AfterReview(dlg.idx + 1, dlg.fuzzy)
              /\ dlg' = [dlg EXCEPT !.idx = IF pc' = "review" THEN @ + 1 ELSE 1]
              /\ hist' = [hist EXCEPT !.dialogs = @ + 1,
                            !.reviewed = Append(@, Reviewed(dlg.fuzzy[dlg.idx], "Skip"))]
         [] OTHER ->
              /\ pc' = IF cfg.highlightDelay <= 0
                       THEN AfterReview(dlg.idx + 1, dlg.fuzzy)
                       ELSE "fuzzyPreview"
              /\ dlg' = [dlg EXCEPT
                           !.accepted = Append(@, dlg.fuzzy[dlg.idx]),
                           !.idx = IF pc' = "fuzzyPreview" THEN @
                                   ELSE IF pc' = "review" THEN @ + 1 ELSE 1]
              /\ hist' = [hist EXCEPT !.dialogs = @ + 1,
                            !.reviewed = Append(@, Reviewed(dlg.fuzzy[dlg.idx], "Convert"))]
  /\ UNCHANGED <<finder, fnTransform, project, vueText, target, cfg, scan, docs, committed>>

\* The preview edit of showFuzzyConversionPreview for a candidate (lines
\* 516-559): none when the template call cannot be rewritten.
FuzzyPreviewEdit(c) ==
  IF c.kind = "template"
  THEN LET edit(r) == IF r.ok THEN <<TemplateEdit(c, r)>> ELSE <<>>
       IN edit(buildTemplateCallReplacement(
                 TextAtMatch(docs, vueText, c.start), c.start, paramNames, <<>>))
  ELSE <<PreviewCallEdit(c, paramNames)>>

\* showFuzzyConversionPreview up to the timer (lines 486-571)
OpenFuzzyPreview ==
  /\ pc = "fuzzyPreview"
  /\ \E edit \in {FuzzyPreviewEdit(dlg.fuzzy[dlg.idx])}, outcome \in PreviewOutcomes :
          LET edited == IF edit = <<>> THEN docs ELSE ApplyTo(docs, edit[1])
              next == AfterReview(dlg.idx + 1, dlg.fuzzy)
              advance == [dlg EXCEPT !.idx = IF next = "review" THEN @ + 1 ELSE 1]
          IN
          CASE outcome = "shown" /\ edit # <<>> ->
                 /\ docs' = edited
                 /\ pc' = "fuzzyPreviewOpen"
                 /\ dlg' = dlg
                 /\ hist' = Entered(hist, "showFuzzyConversionPreview", docs)
            [] outcome = "throwLate" /\ edit # <<>> ->
                 /\ docs' = edited
                 /\ pc' = next
                 /\ dlg' = advance
                 /\ hist' = Returned(hist, "showFuzzyConversionPreview", docs, edited)
            [] OTHER ->
                 /\ docs' = docs
                 /\ pc' = next
                 /\ dlg' = advance
                 /\ hist' = Returned(hist, "showFuzzyConversionPreview", docs, docs)
  /\ UNCHANGED <<finder, fnTransform, project, vueText, target, cfg, scan, committed>>

\* showFuzzyConversionPreview after the timer (lines 572-589): undo
CloseFuzzyPreview ==
  /\ pc = "fuzzyPreviewOpen"
  /\ docs' = Undo(docs, dlg.fuzzy[dlg.idx].file)
  /\ pc' = AfterReview(dlg.idx + 1, dlg.fuzzy)
  /\ dlg' = [dlg EXCEPT !.idx = IF pc' = "review" THEN @ + 1 ELSE 1]
  /\ hist' = Returned(hist, "showFuzzyConversionPreview", hist.preview.before, docs')
  /\ UNCHANGED <<finder, fnTransform, project, vueText, target, cfg, scan, committed>>

\* The content of the documents when monitorConfirmedCalls was called: it
\* is called with the first call, and is in its loop after that.
MonitorEntry == IF dlg.idx = 1 THEN docs ELSE hist.preview.before

\* dialogs.ts monitorConfirmedCalls, one call up to the modal dialog (lines
\* 178-218); an exception is caught in the loop, which goes on with the
\* next call.
OpenMonitor ==
  /\ pc = "monitor"
  /\ dlg.idx <= Len(scan.confirmed)
  /\ \E edited \in {ApplyTo(docs, PreviewCallEdit(scan.confirmed[dlg.idx], paramNames))},
        outcome \in PreviewOutcomes :
          LET next == AfterMonitor(dlg.idx + 1)
              after == IF outcome = "throwLate" THEN edited ELSE docs
          IN IF outcome = "shown"
          THEN /\ docs' = edited
               /\ pc' = "monitorOpen"
               /\ dlg' = dlg
               /\ hist' = Entered(hist, "monitorConfirmedCalls", MonitorEntry)
          ELSE /\ docs' = after
               /\ pc' = next
               /\ dlg' = [dlg EXCEPT !.idx = @ + 1]
               /\ hist' = [hist EXCEPT !.preview =
                             [fn |-> "monitorConfirmedCalls", before |-> MonitorEntry,
                              after |-> after, returned |-> next = "commit"]]
  /\ UNCHANGED <<finder, fnTransform, project, vueText, target, cfg, scan, committed>>

\* monitorConfirmedCalls from the answer on (lines 220-250): undo, then
\* true when the dialog was cancelled, else the next call.
AnswerMonitor ==
  /\ pc = "monitorOpen"
  /\ \E choice \in {"Next", "cancel"} :
       LET next == AfterMonitor(dlg.idx + 1)
       IN /\ docs' = Undo(docs, scan.confirmed[dlg.idx].file)
          /\ pc' = IF choice = "cancel" THEN "done" ELSE next
          /\ dlg' = IF choice = "cancel" THEN dlg ELSE [dlg EXCEPT !.idx = @ + 1]
          /\ hist' = LET h == [hist EXCEPT !.preview =
                                 [fn |-> "monitorConfirmedCalls",
                                  before |-> hist.preview.before, after |-> docs',
                                  returned |-> choice = "cancel" \/ next = "commit"]]
                     IN IF choice = "cancel" THEN Cancelled(h) ELSE h
  /\ UNCHANGED <<finder, fnTransform, project, vueText, target, cfg, scan, committed>>

\* The edit of the mixed path for one candidate (lines 867-906): a template
\* call is rewritten from the document's text, and left out when
\* buildTemplateCallReplacement returns null.
CandidateEdit(c) ==
  IF c.kind = "template"
  THEN LET edit(r) == IF r.ok THEN <<TemplateEdit(c, r)>> ELSE <<>>
       IN edit(buildTemplateCallReplacement(
                 TextAtMatch(docs, vueText, c.start), c.start,
                 paramNames, optionalParamNames))
  ELSE <<CallEdit(c, paramNames, optionalParamNames)>>

RECURSIVE CandidateEdits(_)
CandidateEdits(cands) ==
  IF cands = <<>> THEN <<>>
  ELSE CandidateEdit(cands[1]) \o CandidateEdits(Tail(cands))

\* Lines 432-437: the edit when no call was found
SignatureEdits == <<FunctionEdit(newFnText("signature"))>>

\* Lines 537-574: the function with its internal calls rewritten, then the
\* external calls
ConfirmedEdits ==
  <<FunctionEdit(newFnText("confirmed"))>>
    \o CandidateEdits(splitInternalCalls(scan.confirmed).external)

\* A final edit of the mixed path that carries the signature alone.
MixedEditsSignatureOnly == <<FunctionEdit(newFnText("mixed"))>>

\* Lines 772-906: the signature, then the confirmed and the accepted calls
MixedEdits ==
  LET allCandidates == scan.confirmed \o dlg.accepted
  IN IF allCandidates = <<>> THEN <<FunctionEdit(newFnText("mixed"))>>
     ELSE <<FunctionEdit(newFnText("mixed"))>> \o CandidateEdits(allCandidates)

WorkspaceEdit ==
  IF dlg.path = "signature" THEN SignatureEdits
  ELSE IF dlg.path = "confirmed" THEN ConfirmedEdits
  ELSE MixedEdits

\* The message after applyEdit (lines 440-460, 611-620, 820-841, 934-938):
\* the paths that converted calls show theirs whatever applyEdit returned.
MessageAfter(ok) ==
  IF dlg.path = "signature"
  THEN (IF ok THEN "Converted function but no calls were found." ELSE "")
  ELSE IF dlg.path = "mixed" /\ scan.confirmed \o dlg.accepted = <<>>
  THEN (IF ok THEN "No calls were converted." ELSE "")
  ELSE "Converted call(s) and updated function."

\* The one workspace.applyEdit of the attempt (lines 439, 575, 819, 908);
\* `ok` is what it resolves to.
Commit ==
  /\ pc = "commit"
  /\ \E edits \in {WorkspaceEdit}, ok \in BOOLEAN :
          /\ committed' = edits
          /\ docs' = IF ok THEN ApplyAll(docs, edits) ELSE docs
          /\ hist' = [hist EXCEPT !.outcome = "finished",
                                  !.applyCount = @ + 1,
                                  !.applied = ok,
                                  !.message = MessageAfter(ok),
                                  !.dialogsAtApply = hist.dialogs]
  /\ pc' = "done"
  /\ UNCHANGED <<finder, fnTransform, project, vueText, target, cfg, scan, dlg>>

\* The text of the target in the document: the pieces of the last edit of
\* its range.
CurrentFunctionText(d) ==
  LET own == SelectSeq(d[SourceFile],
                       LAMBDA e : e.expr = "" /\ e.start = targetStart)
  IN own[Len(own)].toks

\* What the parser makes of a function text: one parameter, the text
\* between the first "(" and the first ")" (a binding pattern or a name with
\* its type), and the statements after the "{" that follows that ")".
Reparse(toks) ==
  LET close == IndexOfTok(toks, ")", 1)
      region == SubSeq(toks, 2, close - 1)
      open == IndexOfTok(toks, "{", close)
      body == SubSeq(toks, open + 1, Len(toks))
      first == FirstNonBlank(region, 1)
  IN [params |-> <<[Param(region[first], "", "any", FALSE, "") EXCEPT !.toks = region]>>,
      resolved |-> target.resolved, overloads |-> FALSE, layout |-> target.layout,
      statements |-> SelectSeq(body, LAMBDA t : t # "\n" /\ Trim(t) # "")]

\* A function text that is no function declaration of the language: a
\* statement stands between its first "(" and the first ")".
Malformed(toks) ==
  \E i \in 2..(IndexOfTok(toks, ")", 1) - 1) :
    ParseStatement(toks[i]).kind = "VariableStatement"

\* What a second invocation does with a function text.  Of a malformed text
\* the parser recovers a function whose first parameter is the identifier
\* and whose body, if it finds one, does not hold the statement that stands
\* in the parameter list: the handler goes on to collectCalls or returns
\* with a refusal, and neither test of lines 278-300 can succeed.
SecondResults(toks) ==
  IF Malformed(toks) THEN {Prelude(Reparse(toks), "Continue"), "refused"}
  ELSE {Prelude(Reparse(toks), "Continue")}

\* The command is invoked again on the function an applied conversion
\* left in the document: the handler up to collectCalls (lines 237-300).
Reinvoke ==
  /\ pc = "done"
  /\ hist.outcome = "finished" /\ hist.applied
  /\ hist.second = ""
  /\ \E result \in SecondResults(CurrentFunctionText(docs)) :
       hist' = [hist EXCEPT !.second = result]
  /\ UNCHANGED <<finder, fnTransform, pc, project, vueText, target, cfg, scan, docs, dlg, committed>>

Next ==
  \/ Invoke
  \/ ScanCall
  \/ ScanTemplates
  \/ Dispatch
  \/ OpenFunctionDialog
  \/ AnswerFunctionDialog
  \/ ReviewFuzzyCall
  \/ OpenFuzzyPreview
  \/ CloseFuzzyPreview
  \/ OpenMonitor
  \/ AnswerMonitor
  \/ Commit
  \/ Reinvoke

Spec == Init /\ [][Next]_vars

\* findTargetFunction is called with a source file and a cursor offset.
FindTarget ==
  /\ pc = "find"
  /\ finder.result = Pending
  /\ finder' = [finder EXCEPT !.result =
                  findTargetFunction(finder.constructs, finder.cursorOffset)]
  /\ pc' = "found"
  /\ UNCHANGED <<fnTransform, project, vueText, target, cfg, scan, docs, dlg, hist,
                 committed>>

\* Any source file and any cursor offset; the handler has not been entered.
InitFind ==
  /\ pc = "find"
  /\ finder \in [constructs : SourceFiles, cursorOffset : 0..MaxOffset,
                 result : {Pending}]
  /\ fnTransform = NotTransformed
  /\ project = [calls |-> <<>>, localDef |-> FALSE, recursive |-> FALSE]
  /\ vueText = <<>>
  /\ target = Target(ParamsTwo, TRUE)
  /\ cfg = [showPreviews |-> FALSE, highlightDelay |-> 0, objectVariable |-> "",
            preserveTypes |-> TRUE]
  /\ scan = [idx |-> 1, confirmed |-> <<>>, fuzzy |-> <<>>,
             alreadyConvertedCount |-> 0, shouldAbort |-> FALSE, reason |-> ""]
  /\ docs = Snapshot
  /\ dlg = [path |-> "", fuzzy |-> <<>>, idx |-> 1, accepted |-> <<>>]
  /\ hist = [outcome |-> "", applyCount |-> 0, applied |-> FALSE, message |-> "",
             dialogs |-> 0, dialogsAtApply |-> 0, preview |-> NoPreview,
             reviewed |-> <<>>, scans |-> 0, second |-> ""]
  /\ committed = <<>>

SpecFind == InitFind /\ [][FindTarget]_vars

RECURSIVE ParamListToks(_)
\* The text of a parameter list in pieces, every parenthesis a piece
ParamListToks(params) ==
  IF Len(params) = 1 THEN ParamToks(params[1])
  ELSE ParamToks(params[1]) \o <<", ">> \o ParamListToks(Tail(params))

\* targetFunction.getText() of a target with the parameters, with the
\* places of the first and the last piece of its parameter list:
\*   function createUser(<params>) { return }
\*   @Log("x") createUser(<params>) { return }    (a method with a decorator)
\*   (<params>) => save(name)
\*   name => save(name)
FunctionTexts(params) ==
  LET list == ParamListToks(params)
  IN IF params = ParamsBare
     THEN {[fnText |-> list \o <<" => save", "(", "name", ")">>,
            first |-> 1, last |-> Len(list), result |-> <<>>]}
     ELSE {[fnText |-> <<"function " \o fnName, "(">> \o list \o <<")", " { return }">>,
            first |-> 2, last |-> Len(list) + 3, result |-> <<>>],
           [fnText |-> <<"@Log", "(", "\"x\"", ")", " " \o fnName, "(">> \o list
                          \o <<")", " { return }">>,
            first |-> 6, last |-> Len(list) + 7, result |-> <<>>],
           [fnText |-> <<"(">> \o list \o <<")", " => save", "(", "name", ")">>,
            first |-> 1, last |-> Len(list) + 2, result |-> <<>>]}

\* transformFunctionText is called with the target's text, its parameters
\* and the two settings (commands.ts 366-379).
TransformFunction ==
  /\ pc = "transform"
  /\ \E info \in {extractParameterNames(target.params)} :
       fnTransform' =
         [fnTransform EXCEPT !.result =
            transformFunctionString(
              fnTransform.fnText,
              newParams(target.params, info.paramNames,
                        extractParameterTypes(target.params, info.paramNames,
                                              info.isRestParameter,
                                              info.restTupleElements),
                        info.isRestParameter, transformOptions))]
  /\ pc' = "transformed"
  /\ UNCHANGED <<finder, project, vueText, target, cfg, scan, docs, dlg, hist,
                 committed>>

\* Any target text and any setting; the handler has validated the target.
InitTransform ==
  /\ pc = "transform"
  /\ target \in {Target(params, TRUE) :
                   params \in {ParamsTwo, ParamsThree, ParamsUntyped,
                               ParamsCallDefault, RestNamed, ParamsBare}}
  /\ fnTransform \in FunctionTexts(target.params)
  /\ cfg \in [showPreviews : {FALSE}, highlightDelay : {0},
              objectVariable : {""} \cup ObjectVariableNames,
              preserveTypes : BOOLEAN]
  /\ finder = TargetFound
  /\ project = [calls |-> <<>>, localDef |-> FALSE, recursive |-> FALSE]
  /\ vueText = <<>>
  /\ scan = [idx |-> 1, confirmed |-> <<>>, fuzzy |-> <<>>,
             alreadyConvertedCount |-> 0, shouldAbort |-> FALSE, reason |-> ""]
  /\ docs = Snapshot
  /\ dlg = [path |-> "", fuzzy |-> <<>>, idx |-> 1, accepted |-> <<>>]
  /\ hist = [outcome |-> "", applyCount |-> 0, applied |-> FALSE, message |-> "",
             dialogs |-> 0, dialogsAtApply |-> 0, preview |-> NoPreview,
             reviewed |-> <<>>, scans |-> 0, second |-> ""]
  /\ committed = <<>>

SpecTransform == InitTransform /\ [][TransformFunction]_vars

\* What the user types at the top of a document: a line break, not saved.
Typed(file) ==
  [file |-> file, start |-> 0, end |-> 0, expr |-> "(typed)", text |-> "\n",
   props |-> <<>>, args |-> <<>>, inner |-> <<>>]

IsTyped(e) == e.expr = "(typed)"

\* The edits of a document that the user typed
TypedIn(d, file) == SelectSeq(d[file], IsTyped)

\* The user types into a document and does not save it, before the command
\* is invoked or while a preview waits for its timer (dialogs.ts 570): the
\* project is read from the files (createProjectFromConfig), the edits are
\* made in the documents (openTextDocument).
UserEdit ==
  /\ pc \in {"idle", "fuzzyPreviewOpen"}
  /\ \E file \in Files :
       /\ Len(TypedIn(docs, SourceFile)) + Len(TypedIn(docs, OtherFile))
            + Len(TypedIn(docs, TemplateFile)) < MaxUnsaved
       /\ docs' = ApplyTo(docs, Typed(file))
  /\ UNCHANGED <<finder, fnTransform, pc, project, vueText, target, cfg, scan, dlg, hist, committed>>

NextUnsaved ==
  \/ Next
  \/ UserEdit

\* A project of up to MaxCallsAnyTarget calls and one template match, a
\* target with a plain parameter list; the documents can hold text that the
\* files do not.
InitUnsaved ==
  /\ NotStarted
  /\ \E n \in 0..MaxCallsAnyTarget, resolved \in BOOLEAN :
       \E p \in { q \in ProjectsOf(n) : WellFormedProject(q, resolved) } :
         /\ project = p
         /\ vueText \in SeqsUpTo(TemplateShapes, 1)
         /\ target \in {Target(params, resolved) : params \in ParamLists}
  /\ cfg \in [showPreviews : BOOLEAN, highlightDelay : HighlightDelays,
              objectVariable : {""}, preserveTypes : {TRUE}]

SpecUnsaved == InitUnsaved /\ [][NextUnsaved]_vars

\* doc.getText().slice(start, end) is the text the scanner found at
\* [start, end): no edit that is still in the document lies at or before
\* the range.  (Every edit of the model changes the length of the text it
\* replaces.)
TextUnchangedAt(d, file, start, end) ==
  \A i \in DOMAIN d[file] : d[file][i].start >= end

SpecAnyTarget == InitAnyTarget /\ [][Next]_vars

\* ----------------------------------------------------------------- claims

\* The edits of a sequence as a set
Range(seq) == {seq[i] : i \in DOMAIN seq}

\* C1: an attempt that ends through an abort path (a cancelled dialog, a
\* name collision, call/apply/bind, a parse error) has applied no workspace
\* edit and leaves every document with the content it had at the start.
C1_AbortLeavesNoChange ==
  hist.outcome = "cancelled" =>
    /\ hist.applyCount = 0
    /\ committed = <<>>
    /\ docs = Snapshot

\* The signature edit of a workspace edit: the target's range in its file.
IsSignatureEdit(e) ==
  e.file = SourceFile /\ e.start = targetStart /\ e.end = targetEnd /\ e.expr = ""

\* The number of arguments of a template match in the file's text
TemplateArgCount(start) ==
  LET toks == vueText[MatchIndex(start)].toks
      close == IndexOfTok(toks, ")", 1)
  IN Len(TrimNonEmpty(SplitComma(SubSeq(toks, 3, close - 1), "")))

\* The workspace edit rewrites candidate c: by an edit of its own at the
\* call's range, or within the text of the signature edit.
Carries(edits, c) ==
  \/ \E e \in Range(edits) :
       e.file = c.file /\ e.start = c.start /\ e.expr = c.exprText
  \/ \E e \in Range(edits) :
       /\ IsSignatureEdit(e) /\ c.file = SourceFile
       /\ \E j \in DOMAIN e.inner :
            e.inner[j].start = c.start /\ e.inner[j].converted

C3_PreviewReverted ==
  hist.preview.returned => hist.preview.after = hist.preview.before

\* The call expression of the project a candidate was made from
SiteOf(c) ==
  CHOOSE k \in DOMAIN project.calls :
    project.calls[k].file = c.file /\ CallStart(project, k) = c.start

\* C4: no candidate of the confirmed list has more arguments than the
\* target has parameters, and no template match is in the confirmed list.
C4_TooManyArgsNotConfirmed ==
  \A c \in Range(scan.confirmed) :
    /\ c.file # TemplateFile
    /\ Len(project.calls[SiteOf(c)].call.args) <= Len(target.params)

\* C4 witness: the scan has returned with a resolved and an unresolved call
\* of more arguments than parameters, both in the fuzzy list.
C4_Witness ==
  /\ pc = "collected"
  /\ \E c \in Range(scan.fuzzy) : c.reason = "too-many-args"
  /\ \E c \in Range(scan.fuzzy) : c.reason = "unresolved-too-many-args"
  /\ \A c \in Range(scan.fuzzy) : Len(c.args) > Len(target.params)

\* C5: when a scanned file holds a call of name.call, name.apply or
\* name.bind, collectCalls returns shouldAbort = true, whether or not the
\* warning could be displayed, and no edit is applied.
C5_BoundUseAborts ==
  (/\ \E k \in DOMAIN project.calls : isBoundUse(project.calls[k].call)
   /\ pc \notin {"idle", "scan"})
    => /\ scan.shouldAbort
       /\ hist.applyCount = 0

\* A call-shaped expression of the target's name in a file, other than the
\* target's, that defines the name at its top level.
ShadowedCall(k) ==
  /\ project.localDef
  /\ project.calls[k].file = OtherFile
  /\ looksLikeCall(project.calls[k].call)

\* C6: the scan does not go past a call of the target's name in another
\* file that defines the name itself: collectCalls returns shouldAbort =
\* true with empty lists there, and the attempt applies no edit.
C6_LocalDefinitionAborts ==
  \A k \in DOMAIN project.calls :
    ShadowedCall(k) =>
      /\ scan.idx <= k
      /\ pc \notin {"idle", "scan"} =>
           /\ scan.shouldAbort
           /\ scan.confirmed = <<>> /\ scan.fuzzy = <<>>
           /\ hist.applyCount = 0 /\ docs = Snapshot

\* C6 witness: the scan took the first call as confirmed and stopped at the
\* second, a call in the file with the local definition.
C6_Witness ==
  /\ pc = "done" /\ scan.shouldAbort /\ scan.reason = "collision"
  /\ scan.idx = 2 /\ ShadowedCall(2)
  /\ project.calls[1].call.sym = "target"
  /\ project.calls[2].call.sym = "none"

\* The argument list of a candidate is one object literal.
IsObjectSite(c) ==
  IF c.kind = "template"
  THEN LET toks == vueText[MatchIndex(c.start)].toks
           close == IndexOfTok(toks, ")", 1)
           parts == TrimNonEmpty(SplitComma(SubSeq(toks, 3, close - 1), ""))
       IN Len(parts) = 1 /\ StartsWithBrace(parts[1])
  ELSE isObjectCall(c.args)

\* C7: a call of the target whose argument list is one object literal is
\* in neither list of collectCalls, is not reviewed and is not rewritten,
\* in a parsed file and in a template file alike.
C7_ObjectCallsSkipped ==
  /\ \A c \in Range(scan.confirmed) \cup Range(dlg.accepted) : ~IsObjectSite(c)
  /\ pc = "review" => ~IsObjectSite(dlg.fuzzy[dlg.idx])
  /\ \A e \in Range(committed) :
       e.expr # "" => ~(Len(e.args) = 1 /\ StartsWithBrace(e.args[1]))

\* The call rewrites of a workspace edit: its call edits and the calls
\* rewritten within the text of its signature edit.
CallRewrites(edits) ==
  {[expr |-> e.expr, text |-> e.text, props |-> e.props, args |-> e.args] :
     e \in {x \in Range(edits) : x.expr # ""}}
  \cup UNION {{[expr |-> fnName, text |-> e.inner[j].text,
                props |-> e.inner[j].props, args |-> e.inner[j].args] :
                 j \in {i \in DOMAIN e.inner : e.inner[i].converted}} :
              e \in Range(edits)}

\* The argument of parameter i is missing or an undefined-equivalent text.
NoValueFor(args, i) ==
  \/ i \notin DOMAIN args
  \/ args[i] \in {"undefined", "void 0", "void(0)"}

EmittedArg(args, i) == IF i \in DOMAIN args THEN args[i] ELSE "undefined"

ParamIndex(name) == CHOOSE i \in DOMAIN target.params : target.params[i].name = name

\* C9: the properties of a replacement text follow the parameter order;
\* a property is `name` exactly when the argument text equals the parameter
\* name and `name:argExpr` otherwise.
C9_PropertyForm ==
  \A r \in CallRewrites(committed) \cup UNION {CallRewrites(docs[f]) : f \in Files} :
    /\ r.text = r.expr \o "({ " \o JoinWith(PropTexts(r.props), ", ") \o " })"
    /\ \A j, k \in DOMAIN r.props :
         j < k => ParamIndex(r.props[j].name) < ParamIndex(r.props[k].name)
    /\ \A j \in DOMAIN r.props :
         LET name == r.props[j].name
             arg == EmittedArg(r.args, ParamIndex(name))
         IN r.props[j].text = IF arg = name THEN name ELSE name \o ":" \o arg

\* C9 witness: a committed text with a shorthand and a full property.
C9_Witness ==
  /\ hist.applied
  /\ \E r \in CallRewrites(committed) :
       /\ r.args = ArgsShort
       /\ r.props[1].text = "name"
       /\ r.props[2].text = "age:undefined"

\* The text committed for call k of the project ("" when there is none)
CommittedTextOf(k) ==
  LET c == Candidate(project, k, "", 0)
      own == {e \in Range(committed) : e.expr # "" /\ e.file = c.file /\ e.start = c.start}
      within == {x \in UNION {Range(e.inner) : e \in Range(committed)} :
                   c.file = SourceFile /\ x.start = c.start /\ x.converted}
  IN IF own # {} THEN (CHOOSE e \in own : TRUE).text
     ELSE IF within # {} THEN (CHOOSE x \in within : TRUE).text
     ELSE ""

\* The example: createUser(name, age, email?) with its two calls
AliceAndBob ==
  /\ target.params = ParamsThree
  /\ Len(project.calls) >= 2
  /\ project.calls[1].call = DirectCall("target", ArgsAlice)
  /\ project.calls[2].call = DirectCall("target", ArgsBob)

CallEditsOf(edits) == {e \in Range(edits) : e.expr # ""}

EditsAt(edits, c) ==
  {e \in CallEditsOf(edits) : e.file = c.file /\ e.start = c.start}

\* The candidates of the review loop by their answer
Answered(choice) ==
  {hist.reviewed[i].c : i \in {j \in DOMAIN hist.reviewed :
                                  hist.reviewed[j].choice = choice}}

\* C11: when the review loop ended without a cancel and the edit was
\* issued, every candidate of the review list was reviewed, in order; the
\* call edits committed are exactly those of the confirmed candidates and of
\* the candidates answered Convert; a candidate answered Skip has no edit;
\* and the signature edit is committed.
C11_ReviewAnswers ==
  (hist.outcome = "finished" /\ dlg.path = "mixed") =>
    /\ [i \in DOMAIN hist.reviewed |-> hist.reviewed[i].c] = dlg.fuzzy
    /\ \A c \in Range(scan.confirmed) \cup Answered("Convert") :
         EditsAt(committed, c) # {}
    /\ \A e \in CallEditsOf(committed) :
         \E c \in Range(scan.confirmed) \cup Answered("Convert") :
           e.file = c.file /\ e.start = c.start
    /\ \A c \in Answered("Skip") : EditsAt(committed, c) = {}
    /\ \E e \in Range(committed) : IsSignatureEdit(e)

\* The file paths in lexicographic order
PathRank(file) ==
  CASE file = "a.js" -> 1
    [] file = "a.ts" -> 2
    [] file = "v.vue" -> 3

\* Candidate c comes before candidate d by score (higher first), then by
\* file path, then by offset.
SortsBefore(c, d) ==
  \/ c.score > d.score
  \/ c.score = d.score /\ PathRank(c.file) < PathRank(d.file)
  \/ c.score = d.score /\ c.file = d.file /\ c.start < d.start

\* C12: the candidates given to reviewFuzzyCall come in the order of the
\* classifier score, then the file path, then the offset.
C12_ReviewOrder ==
  \A i, j \in DOMAIN hist.reviewed :
    i < j => SortsBefore(hist.reviewed[i].c, hist.reviewed[j].c)

\* An argument list with a spread element
HasSpread(args) == \E i \in DOMAIN args : args[i] = "...args"

\* C13: a call of the target that passes a spread argument is not in the
\* confirmed list, and no workspace edit rewrites it unless the user
\* answered Convert for it.
C13_SpreadNotConfirmed ==
  /\ \A c \in Range(scan.confirmed) : ~HasSpread(c.args)
  /\ \A r \in CallRewrites(committed) :
       HasSpread(r.args) => \E c \in Range(dlg.accepted) : c.args = r.args

\* Two ranges of one file that share a position
Overlap(c, d) == c.file = d.file /\ c.start < d.end /\ d.start < c.end

\* The candidates the handler commits: confirmed and accepted in review
AcceptedForCommit == Range(scan.confirmed) \cup Range(dlg.accepted)

\* C19: the call edits of a workspace edit are pairwise disjoint within a
\* file, and no workspace edit is issued when two candidates accepted for
\* commit overlap.
C19_DisjointRanges ==
  /\ \A e, f \in CallEditsOf(committed) : e # f => ~Overlap(e, f)
  /\ (\E c, d \in AcceptedForCommit : c # d /\ Overlap(c, d))
       => hist.applyCount = 0

\* C20: in a workspace edit, a committed call that lies within the
\* target's declaration is rewritten in the text of the signature edit and
\* has no edit of its own.
C20_InternalCallsInSignature ==
  hist.applyCount = 1 =>
    \A c \in AcceptedForCommit :
      isInternal(c) =>
        /\ \E e \in Range(committed) :
             /\ IsSignatureEdit(e)
             /\ \E j \in DOMAIN e.inner :
                  e.inner[j].start = c.start /\ e.inner[j].converted
        /\ EditsAt(committed, c) = {}

\* ------------------------------------------------------------------- C14

\* The target has a parameter property, overload signatures, or already
\* takes one destructured object, in the parameter list or in the body.
Unconvertible(tgt) ==
  \/ \E i \in DOMAIN tgt.params : tgt.params[i].scope # ""
  \/ tgt.overloads
  \/ Len(tgt.params) = 1 /\ ParamToks(tgt.params[1])[1] = "{"
  \/ /\ Len(tgt.params) = 1
     /\ \E q \in Patterns : LetLine(q, tgt.params[1].name) \in Range(tgt.statements)

\* C14: when the target has a parameter with parameter-property modifiers,
\* has overload signatures, or already takes a single destructured object
\* (inline or object-variable form), the handler returns before collectCalls
\* is invoked and applies no edit: nothing is scanned, no document changes
\* and no WorkspaceEdit is built or applied.
C14_ValidationRefusal ==
  Unconvertible(target) =>
    /\ pc \in {"idle", "done"}
    /\ hist.scans = 0
    /\ scan.idx = 1 /\ scan.confirmed = <<>> /\ scan.fuzzy = <<>>
    /\ docs = Snapshot
    /\ committed = <<>>
    /\ hist.applyCount = 0

\* The handler has returned for a target with overload signatures.
C14_Witness ==
  /\ target.overloads
  /\ pc = "done"
  /\ hist.outcome = "refused"
  /\ \E i \in DOMAIN project.calls : project.calls[i].call.sym = "target"

\* ------------------------------------------------------------------- C15

\* The target has a sole rest parameter
SoleRest(tgt) == Len(tgt.params) = 1 /\ tgt.params[1].rest

\* An element `name: type` of the rest parameter's tuple type
HasNamedElement(tgt) ==
  \E k \in DOMAIN TupleElements(tgt.params[1].typeToks) :
    IndexOfTok(TupleElements(tgt.params[1].typeToks)[k], ":", 1) > 1

TypeNames == {"string", "number", "any"}

\* C15: for a sole rest parameter whose type has no named tuple elements
\* (an unnamed tuple type such as [string, number], an array type such as
\* string[], no type) extractParameterNames refuses: collectCalls is not
\* invoked and nothing is edited; no type name is used as a property name.
C15_UnnamedRestRefused ==
  (SoleRest(target) /\ ~HasNamedElement(target)) =>
    /\ extractParameterNames(target.params).refused
    /\ Range(extractParameterNames(target.params).paramNames) \cap TypeNames = {}
    /\ hist.scans = 0
    /\ docs = Snapshot
    /\ committed = <<>>

\* ------------------------------------------------------------------- C16

\* The destructuring pattern with the defaults kept
C16_Pattern(params) ==
  JoinWith([i \in DOMAIN params |->
              IF params[i].init # "" THEN params[i].name \o " = " \o params[i].init
              ELSE params[i].name], ", ")

\* The object type in which a parameter with a default value or an optional
\* marker is optional
C16_ObjectType(params) ==
  JoinWith([i \in DOMAIN params |->
              params[i].name
                \o (IF params[i].question \/ params[i].init # "" THEN "?" ELSE "")
                \o ": "
                \o (IF params[i].typeNode # "" THEN params[i].typeNode
                    ELSE params[i].type)], "; ")

\* C16: in a TypeScript target every parameter that has a default value or
\* an explicit optional marker is optional (name?: T) in the generated object
\* type, and the default is kept in the destructuring pattern:
\* createUser(name: string, age = 22) yields
\* { name, age = 22 }: { name: string; age?: number }.
C16_DefaultIsOptional ==
  \A k \in DOMAIN committed :
    (/\ IsSignatureEdit(committed[k])
     /\ cfg.objectVariable = "" /\ cfg.preserveTypes
     /\ ~SoleRest(target))
    => SubSeq(committed[k].toks, 2, 8)
         = <<"{", " ", C16_Pattern(target.params) \o " }", ": ",
             "{", " ", C16_ObjectType(target.params) \o " }">>

\* ------------------------------------------------------------------- C17

\* The parameter list of a function text: the pieces between its first "("
\* and the first ")"
ParameterList(toks) == SubSeq(toks, 2, IndexOfTok(toks, ")", 1) - 1)

\* The statements of a function text: the pieces that are not white space
\* after the "{" that follows the parameter list
BodyStatements(toks) ==
  LET open == IndexOfTok(toks, "{", IndexOfTok(toks, ")", 1))
  IN SelectSeq(SubSeq(toks, open + 1, Len(toks)),
               LAMBDA t : t # "\n" /\ Trim(t) # "")

\* The pattern inline mode puts in the parameter list
InlinePattern ==
  IF SoleRest(target) THEN JoinWith(paramNames, ", ") ELSE C16_Pattern(target.params)

\* C17: whenever objectVariable is a non-blank identifier and a conversion
\* is committed, the new function text has the parameter list replaced by
\* that identifier (with its type) and `let { ... } = <identifier>;` as the
\* first statement of the body, on one line or several, typed or not; the
\* names and defaults are those of inline mode.
C17_ObjectVariableForm ==
  \A k \in DOMAIN committed :
    (IsSignatureEdit(committed[k]) /\ cfg.objectVariable # "")
    => /\ ParameterList(committed[k].toks)[1] = cfg.objectVariable
       /\ LetLine(InlinePattern, cfg.objectVariable)
            \notin Range(ParameterList(committed[k].toks))
       /\ BodyStatements(committed[k].toks)[1]
            = LetLine(InlinePattern, cfg.objectVariable)

\* ------------------------------------------------------------------- C18

\* C18: conversion is idempotent at the attempt level: after a committed
\* conversion, in inline mode or in object-variable mode, a second
\* invocation on the same function finds it already converted and returns
\* before collectCalls, applying no edit.
C18_SecondInvocationIsNoOp ==
  hist.second # "" => hist.second = "alreadyDestructured"

\* ------------------------------------------------------------------- C21

\* C21: at commit time every call edit range [start, end) computed during
\* scanning still covers, in the document being edited, exactly the call
\* text captured at scan time, also when the editor buffer differs from the
\* file the scanner read or the document changes while a dialog or a timed
\* preview is open.
C21_OffsetsStayValid ==
  pc = "commit" =>
    \A k \in DOMAIN WorkspaceEdit :
      ~IsSignatureEdit(WorkspaceEdit[k])
        => TextUnchangedAt(docs, WorkspaceEdit[k].file,
                           WorkspaceEdit[k].start, WorkspaceEdit[k].end)

\* ------------------------------------------------------------------- C22

\* The construct of the smallest range among those that contain the cursor
\* (0 when none does)
Innermost(cs, cursorOffset) ==
  FirstOf({i \in DOMAIN cs :
             /\ AtCursor(cs[i], cursorOffset)
             /\ \A j \in DOMAIN cs :
                  AtCursor(cs[j], cursorOffset) => i \notin Enclosing(cs, j)})

\* C22: findTargetFunction returns the innermost function-like construct
\* whose range contains the cursor: with the cursor in a function, arrow
\* function or method nested in another construct, the nested one is
\* returned, not the enclosing one.
C22_InnermostFound ==
  finder.result # Pending =>
    finder.result = Innermost(finder.constructs, finder.cursorOffset)

\* ------------------------------------------------------------------- C23

\* The rewrites committed for confirmed calls that pass fewer arguments
\* than the target has parameters
ShortConfirmedRewrites ==
  {r \in CallRewrites(committed) :
     /\ Len(r.args) < Len(target.params)
     /\ \E k \in DOMAIN scan.confirmed :
          /\ scan.confirmed[k].exprText = r.expr
          /\ scan.confirmed[k].args = r.args}

\* The optional parameters buildCallReplacement leaves out of a call
OmittedOptional(args) ==
  {i \in DOMAIN target.params : optionalParamNames[i] /\ NoValueFor(args, i)}

EntriesFor(list, k) ==
  {i \in DOMAIN list :
     /\ list[i].kind = "ast"
     /\ list[i].file = project.calls[k].file
     /\ list[i].start = CallStart(project, k)
     /\ list[i].end = CallEnd(project, k)}

\* The outcome the ordered procedure gives a call
Procedure(call) ==
  IF isObjectCall(call.args) THEN "SKIP"
  ELSE IF call.sym = "none" /\ isPropertyAccess(call) THEN "REVIEW-property"
  ELSE IF Len(call.args) > Len(paramNames) THEN "REVIEW-count"
  ELSE "SAFE"

\* The calls collectCalls has classified so far
Classified ==
  {k \in DOMAIN project.calls :
     k < scan.idx /\ looksLikeCall(project.calls[k].call)}

\* C24: every candidate of the parsed files that does not abort the scan
\* gets exactly one outcome, by the ordered procedure: a single
\* object-literal argument is skipped; else an unresolved property access is
\* reviewed with reason unresolved-property-access; else more arguments
\* than parameters is reviewed; else the call is confirmed.
C24_OrderedProcedure ==
  ~scan.shouldAbort =>
    \A k \in Classified :
      LET inConfirmed == EntriesFor(scan.confirmed, k)
          inFuzzy == EntriesFor(scan.fuzzy, k)
          outcome == Procedure(project.calls[k].call)
      IN CASE outcome = "SKIP" -> inConfirmed = {} /\ inFuzzy = {}
           [] outcome = "REVIEW-property" ->
                /\ inConfirmed = {} /\ Cardinality(inFuzzy) = 1
                /\ \A i \in inFuzzy :
                     scan.fuzzy[i].reason = "unresolved-property-access"
           [] outcome = "REVIEW-count" ->
                /\ inConfirmed = {} /\ Cardinality(inFuzzy) = 1
                /\ \A i \in inFuzzy :
                     scan.fuzzy[i].reason
                       \in {"too-many-args", "unresolved-too-many-args"}
           [] outcome = "SAFE" ->
                Cardinality(inConfirmed) = 1 /\ inFuzzy = {}

\* C24 witness: a finished scan that reviewed an unresolved api.createUser
\* call as a property access and a call with too many arguments.
C24_Witness ==
  /\ pc = "collected"
  /\ ~scan.shouldAbort
  /\ Classified = {1, 2}
  /\ Procedure(project.calls[1].call) = "REVIEW-property"
  /\ Procedure(project.calls[2].call) = "REVIEW-count"
  /\ Len(scan.fuzzy) = 2

\* ------------------------------------------------------------------- C26

\* The scanned candidates whose single argument is an object literal
Skipped == {k \in Classified : Procedure(project.calls[k].call) = "SKIP"}

\* C26: when a scan has ended without an abort, alreadyConvertedCount is
\* the number of candidates skipped as already converted, resolved or not;
\* so when every matching call is in object form the handler reports it and
\* applies no edit instead of converting the signature alone.
C26_SkippedCounted ==
  (pc \notin {"idle", "scan"} /\ ~scan.shouldAbort)
    => /\ scan.alreadyConvertedCount = Cardinality(Skipped)
       /\ (Skipped # {} /\ scan.confirmed = <<>> /\ scan.fuzzy = <<>>)
            => hist.applyCount = 0 /\ docs = Snapshot

\* ------------------------------------------------------------------- C27

\* C27: a call whose callee resolves to a declaration other than the
\* target's is never among the confirmed or the fuzzy candidates, wherever
\* that declaration is and whether or not the target has a symbol.
C27_NoForeignCall ==
  \A k \in DOMAIN project.calls :
    project.calls[k].call.sym = "other"
      => EntriesFor(scan.confirmed, k) = {} /\ EntriesFor(scan.fuzzy, k) = {}

\* ------------------------------------------------------------------- C25

RECURSIVE MatchingClose(_, _, _)
\* The index of the ")" that closes the "(" before position i (0 when none)
MatchingClose(toks, i, depth) ==
  IF i > Len(toks) THEN 0
  ELSE IF toks[i] = ")" THEN (IF depth = 0 THEN i
                              ELSE MatchingClose(toks, i + 1, depth - 1))
  ELSE IF toks[i] = "(" THEN MatchingClose(toks, i + 1, depth + 1)
  ELSE MatchingClose(toks, i + 1, depth)

RECURSIVE TopLevelSplit(_, _, _)
\* The pieces between the commas that lie in no parentheses or brackets
TopLevelSplit(toks, acc, depth) ==
  IF toks = <<>> THEN <<acc>>
  ELSE IF toks[1] = "," /\ depth = 0
  THEN <<acc>> \o TopLevelSplit(Tail(toks), "", 0)
  ELSE TopLevelSplit(Tail(toks), acc \o toks[1],
                     IF toks[1] \in {"(", "["} THEN depth + 1
                     ELSE IF toks[1] \in {")", "]"} THEN depth - 1
                     ELSE depth)

\* The arguments of a template call, as the claim reads them
TopLevelArguments(toks) ==
  LET open == IndexOfTok(toks, "(", 1)
  IN TrimNonEmpty(TopLevelSplit(
       SubSeq(toks, open + 1, MatchingClose(toks, open + 1, 0) - 1), "", 0))

\* The edits committed for calls of the template file
TemplateRewrites ==
  {e \in Range(committed) : e.file = TemplateFile /\ e.expr # ""}

\* C25: the arguments of a template call are the pieces between its opening
\* parenthesis and the matching closing one, split on top-level commas only,
\* and the replaced range ends at the matching parenthesis: a nested call,
\* parentheses or a comma inside brackets stay within one argument.
C25_TopLevelArguments ==
  \A e \in TemplateRewrites :
    LET toks == vueText[MatchIndex(e.start)].toks
    IN /\ e.end = e.start + MatchingClose(toks, IndexOfTok(toks, "(", 1) + 1, 0)
       /\ e.args = TopLevelArguments(toks)

\* ------------------------------------------------------------------- C28

\* The messages that report a conversion
SuccessMessages ==
  {"Converted call(s) and updated function.",
   "Converted function but no calls were found.",
   "No calls were converted."}

\* C28: a conversion is reported as done only when the final applyEdit
\* returned true; when it returned false no success message is shown, on
\* the confirmed-only and mixed paths as on the signature-only paths.
C28_SuccessOnlyWhenApplied ==
  hist.message \in SuccessMessages => hist.applied

\* ------------------------------------------------------------------- C29

\* The text a preview has put in the document of candidate c
PreviewText(c) == docs[c.file][Len(docs[c.file])].text

\* The text the commit writes for candidate c when the documents are d
CommitTexts(c, d) ==
  IF c.kind = "template"
  THEN LET texts(r) == IF r.ok THEN {r.replacement} ELSE {}
       IN texts(buildTemplateCallReplacement(
                  TextAtMatch(d, vueText, c.start), c.start,
                  paramNames, optionalParamNames))
  ELSE {CallEdit(c, paramNames, optionalParamNames).text}

After(toks, k) == SubSeq(toks, k + 1, Len(toks))

\* C30: transformFunctionText changes the target's parameter list and
\* nothing else: the text before the parameter list and the text after it
\* are those of the original, and a parenthesised list keeps its
\* parentheses, also when the text begins with a decorator call, a default
\* value holds parentheses, or the parameter of an arrow function has none.
C30_OnlyParameterList ==
  pc = "transformed" =>
    LET t == fnTransform.fnText
        r == fnTransform.result
        first == fnTransform.first
        tail == Len(t) - fnTransform.last
    IN /\ Len(r) >= first - 1 + tail
       /\ SubSeq(r, 1, first - 1) = SubSeq(t, 1, first - 1)
       /\ After(r, Len(r) - tail) = After(t, fnTransform.last)
       /\ t[first] = "(" => r[first] = "(" /\ r[Len(r) - tail] = ")"

====
